---- MODULE Spec2Model ----
(***************************************************************************)
(* State-machine model of the squash server framework core.                *)
(*                                                                         *)
(* The subsystems are modelled each with its own specification:            *)
(*   SpecModule  - module lifecycle  (module/module.go: Init, run, Destroy)*)
(*   SpecGo      - offload engine and LinearContext (package g)            *)
(*   SpecConn    - one connection: callers of Write/Close/Destroy and the  *)
(*                 writer task (network/tcp_conn.go, WSConn alike)         *)
(*   SpecServer  - TCP acceptor and its agent tasks (TCPServer, gate agent)*)
(*   SpecRpc     - channel RPC server and client (chanrpc/chanrpc.go)      *)
(*   SpecGate    - gate agents and the logic task (gate/gate.go)           *)
(*   SpecRoute   - Processor.Route (protobuf and json processors)          *)
(*   SpecTimer   - timer dispatcher and cron jobs (package timer)          *)
(*   SpecParser  - message framing (network MsgParser: Write and Read)     *)
(* Every action leaves the variables of the other subsystems unchanged.    *)
(***************************************************************************)
EXTENDS Integers, Sequences, FiniteSets, TLC

(***************************************************************************)
(* Bounds of the model.                                                    *)
(***************************************************************************)
\* number of modules registered before Init (the spec's example uses three)
NumMods == 3
\* number of submissions the owning task makes to one LinearContext
MaxSubs == 3
\* capacity l of Go.ChanCb given to g.New(l)
ChanCbLen == 2
\* capacity of the connection's send queue (pendingWriteNum of newTCPConn)
PendingWriteNum == 2
\* number of distinct non-nil buffers handed to Write
MaxBufs == 3
\* number of tasks calling Write / Close / Destroy on the connection
NumCallers == 2
\* TCPServer.MaxConnNum, the cap of the live-connection set
MaxConnNum == 1
\* number of sockets that ever connect to the listener
NumSocks == 2
\* capacity l of Server.ChanCall given to NewServer(l)
ChanCallLen == 2
\* capacity l of Client.ChanAsynRet given to Server.Open(l)
AsynRetLen == 2
\* number of call descriptors the callers ever try to create
MaxCalls == 3
\* number of submissions through Go.Go (those through the linear context
\* are bounded by MaxSubs)
MaxPlain == 1
\* number of connections the gate accepts
NumAgents == 2
\* capacity of the call channel of gate.AgentChanRPC
AgentCallLen == 1
\* number of messages the read task hands to Route
MaxRoutes == 2
\* capacity of the call channel of the router
RouterCallLen == 1
\* number of timers the dispatcher registers, those of the cron included
NumTimers == 2
\* capacity of Dispatcher.ChanTimer
ChanTimerLen == 1
\* number of times the owning task calls Cb itself on one timer
MaxCbCalls == 2
\* number of chunks given to one MsgParser.Write
MaxChunks == 2
\* number of frames ever put on the wire
MaxFrames == 2
\* conf.LenStackBuf, the configured size of the buffer for the stack trace
\* that goes with a recovered panic (0: the panic is reported without one)
LenStackBuf == 0

VARIABLES
    \* ---- module lifecycle ----
    mainPc,     \* position of the task that calls Init and then Destroy
    mainI,      \* loop index i of Init's / Destroy's for loop (1-based)
    closeSig,   \* closeSig[m]: number of values buffered in m.closeSig (cap 1)
    wg,         \* wg[m]: counter of m.wg
    runPc,      \* runPc[m]: position of the goroutine `go run(m)`
    modLog,     \* history: the events <<kind, m>> of the task running Init / Destroy
    \* ---- offload engine / linear context ----
    pendingGo,      \* Go.pendingGo
    chanCb,         \* Go.ChanCb: sequence of callbacks (submission ids)
    linearGo,       \* LinearContext.linearGo: FIFO of submission ids
    mutexExecution, \* LinearContext.mutexExecution: 0 free, else holding task
    goPc,           \* goPc[k]: position of the task spawned by submission k
    goE,            \* goE[k]: the element e task k removed from the list
    submitted,      \* number of submissions made so far by the owning task
    ownerPc,        \* owning task: "run" or "closing" (inside Go.Close) or "closed"
    execLog,        \* history: submissions in the order their f started
    postLog,        \* history: callbacks in the order they were sent on ChanCb
    cbLog,          \* history: callbacks in the order Cb invoked them
    plainPc,        \* plainPc[p]: position of the task of submission p of Go.Go
    cbSeen,         \* history: what the callbacks handed to Cb were (nil, one
                    \* that returned, one that panicked)
    fPanicked,      \* history: the submissions of Go.Go whose f panicked
    \* ---- connection ----
    writeChan,  \* tcpConn.writeChan contents (0 is the nil sentinel)
    chanClosed, \* close(tcpConn.writeChan) has been executed
    closeFlag,  \* tcpConn.closeFlag
    mutex,      \* tcpConn's sync.Mutex: 0 free, t caller t, -1 the writer task
    callPc,     \* callPc[t]: position of caller task t
    callArg,    \* callArg[t]: the buffer b of the Write in progress (0 = nil)
    writerPc,   \* position of the writer goroutine of newTCPConn
    writerB,    \* the buffer b the writer received last
    sockClosed, \* conn.Close() has been executed on the socket
    sockLog,    \* history: buffers written to the socket, in order
    enqLog,     \* history: everything ever sent on writeChan, in order
    nextBuf,    \* next fresh buffer id
    fullCount,  \* history: number of "close conn: channel full" events
    destroyCount, \* history: number of doDestroy executions
    writeErr,   \* history: conn.Write failed while the socket was still open
    chanPanic,  \* history: a send on / close of the closed writeChan happened
    lastRet,    \* history: <<call, outcome>> of the call that returned last
    sockWriting, \* the tasks that are inside conn.Write on the socket
    \* ---- TCP acceptor ----
    closerPc,   \* position of the task that calls Start and then Close
    lnClosed,   \* server.ln.Close() has been executed
    wgLn,       \* counter of server.wgLn
    wgConns,    \* counter of server.wgConns
    conns,      \* server.conns: the live-connection set (socket ids)
    mutexConns, \* server.mutexConns is held
    acceptPc,   \* position of the accept task `go server.run()`
    acceptConn, \* conn: the socket Accept returned last
    nextSock,   \* id of the next socket to connect
    agentPc,    \* agentPc[c]: position of the agent task of socket c
    rawClosed,  \* sockets on which conn.Close() was executed by run / Close
    rejected,   \* history: sockets closed by run because the set was full
    runErr,     \* history: <<c, err>>, the error that ended a Run last
    agentLog,   \* history: agentLog[c] is the teardown of agent c, in order
    \* ---- channel RPC ----
    ChanCall,        \* Server.ChanCall contents (call descriptors)
    chanCallClosed,  \* close(s.ChanCall) has been executed
    chanSyncRet,     \* Client.chanSyncRet contents (capacity 1)
    ChanAsynRet,     \* Client.ChanAsynRet contents
    pendingAsynCall, \* Client.pendingAsynCall
    cliPc,      \* position of the task that uses the client
    cliCi,      \* the descriptor of the Call0 / Call1 / CallN in progress
    execPc,     \* position of the server task
    execCi,     \* ci of the Exec in progress
    execRi,     \* the return descriptor Exec is about to hand to s.ret
    execPanic,  \* the value the function of the last Exec panicked with
    execErr,    \* the error the last Exec returned
    nCalls,     \* number of descriptors the callers tried to create so far
    lastCall,   \* history: the client call that returned last and its error
    asynOk,     \* history: number of AsynCalls that enqueued their descriptor
    cbCalls,    \* history: number of Cb invocations
    syncCb,     \* history: number of callbacks AsynCall invoked itself
    dequeued,   \* history: dequeued[k], receives of descriptor k from ChanCall
    invoked,    \* history: invoked[k], invocations of the function for k
    delivered,  \* history: delivered[k], return descriptors sent for k
    closeK,     \* history: pendingAsynCall when Client.Close was called
    closeRecv,  \* history: descriptors Client.Close has received
    srvGoPc,    \* position of the task that calls Server.Go
    srvGoCi,    \* the descriptor that Server.Go is sending
    lastDeq,    \* history: the client's call whose descriptor was received
                \* from ChanCall last (0: none yet)
    lastRecv,   \* history: the call whose return descriptor the client
                \* received from ChanAsynRet last (0: none yet)
    \* ---- agent close notification ----
    closeAgentShape, \* shape "CloseAgent" is registered with on
                     \* gate.AgentChanRPC (-1: it is not registered)
    agentCall,       \* AgentChanRPC.ChanCall contents: the agents whose
                     \* CloseAgent descriptor is queued
    agentRpcClosed,  \* AgentChanRPC.Close has closed the call channel
    agentRet,        \* agentRet[a]: chanSyncRet of the client OnClose opened
    onClosePc,       \* onClosePc[a]: position of a's per-connection task
    onCloseErr,      \* onCloseErr[a]: the error Call0 returned to OnClose
    logicPc,         \* position of the logic task
    logicCi,         \* the agent whose handler is running (0: none)
    handled,         \* history: agents whose CloseAgent handler has ended
    gateWg,          \* the counter of server.wgConns
    gateCloserPc,    \* position of the task that calls TCPServer.Close
    newAgentReg,     \* "NewAgent" is registered on gate.AgentChanRPC
    accPc,           \* position of the accept task
    accA,            \* the agent the accept task is creating (0: none)
    logicOp,         \* the function the logic task is running ("none": none)
    agentSent,       \* history: the descriptors sent on the call channel
    agentExec,       \* history: the descriptors whose handler was started
    \* ---- message routing ----
    routePc,      \* position of the read task inside Processor.Route
    routeMsg,     \* the type of the message being routed ("none": none)
    routeK,       \* number of Route calls made so far
    routeRet,     \* what the last Route call returned
    routeLog,     \* history: <<k, event, ...>> of Route call k, in order
    routerCall,   \* ChanCall of the router: <<id, args>> descriptors
    routerClosed, \* the router has been closed
    \* ---- timers ----
    tmUnder,      \* tmUnder[t]: the underlying time.Timer of timer t: "none"
                  \* (not created), "armed", "stopped", "firing", "done" (sent)
    tmCb,         \* tmCb[t]: t.cb: "nil", "user" or "cron"
    nextTimer,    \* id of the next timer AfterFunc creates
    ChanTimer,    \* Dispatcher.ChanTimer contents (timer ids)
    timerPc,      \* owning task: "idle", or "cronUser" inside a cron callback
    timerCur,     \* the timer whose Cb the owning task is in (0: none)
    cronT,        \* cron.t (0: none)
    cronState,    \* "none", "active" or "failed" (CronFunc returned an error)
    cronTimers,   \* the timers registered for the cron job
    tmStopped,    \* history: Stop has been called on timer t
    stopFound,    \* history: tmUnder[t] when Stop was first called on t
    tmInvoked,    \* history: number of invocations of t's callback
    tmCbCalls,    \* history: number of Cb calls on timer t
    cronStopped,  \* history: where Cron.Stop was first called: "no" (not yet),
                  \* "inside" the user callback or "outside"
    cronRuns,     \* history: number of invocations of the cron's user callback
    \* ---- message framing (MsgParser) ----
    lenMsgLen,    \* MsgParser.lenMsgLen: width of the length prefix in bytes
    minMsgLen,    \* MsgParser.minMsgLen
    maxMsgLen,    \* MsgParser.maxMsgLen
    littleEndian, \* MsgParser.littleEndian
    parserPc,     \* TCPServer.init: "new" after NewMsgParser, "lenSet" after
                  \* SetMsgLen, "ready" after SetByteOrder
    wire,         \* the bytes written to the connection and not yet read
    wireClosed,   \* TRUE once the writing side closed the connection
    frames,       \* history: for each frame on the wire, who produced it
    nFrames,      \* number of frames ever put on the wire
    readPc,       \* the read loop of the agent: "reading" or "ended"
    lastWrite,    \* arguments and outcome of the last MsgParser.Write
    lastRead      \* outcome of the last MsgParser.Read: where it returned
                  \* ("prefix", "length", "payload": the step that failed;
                  \* "done"), the error, the decoded length, the data, the
                  \* number of bytes taken from the connection

modVars == <<mainPc, mainI, closeSig, wg, runPc, modLog>>
goVars == <<pendingGo, chanCb, linearGo, mutexExecution, goPc, goE, submitted,
            ownerPc, execLog, postLog, cbLog, plainPc, cbSeen, fPanicked>>
connVars == <<writeChan, chanClosed, closeFlag, mutex, callPc, callArg, writerPc,
              writerB, sockClosed, sockLog, enqLog, nextBuf, fullCount,
              destroyCount, writeErr, chanPanic, lastRet, sockWriting>>
srvVars == <<closerPc, lnClosed, wgLn, wgConns, conns, mutexConns, acceptPc,
             acceptConn, nextSock, agentPc, rawClosed, rejected, runErr, agentLog>>
rpcVars == <<ChanCall, chanCallClosed, chanSyncRet, ChanAsynRet, pendingAsynCall,
             cliPc, cliCi, execPc, execCi, execRi, execPanic, execErr, nCalls,
             lastCall, asynOk, cbCalls, syncCb, dequeued, invoked, delivered,
             closeK, closeRecv, srvGoPc, srvGoCi, lastDeq, lastRecv>>
gateVars == <<closeAgentShape, agentCall, agentRpcClosed, agentRet, onClosePc,
              onCloseErr, logicPc, logicCi, handled, gateWg, gateCloserPc,
              newAgentReg, accPc, accA, logicOp, agentSent, agentExec>>
routeVars == <<routePc, routeMsg, routeK, routeRet, routeLog, routerCall, routerClosed>>
timerVars == <<tmUnder, tmCb, nextTimer, ChanTimer, timerPc, timerCur, cronT,
               cronState, cronTimers, tmStopped, stopFound, tmInvoked, tmCbCalls,
               cronStopped, cronRuns>>
parserVars == <<lenMsgLen, minMsgLen, maxMsgLen, littleEndian, parserPc, wire,
                wireClosed, frames, nFrames, readPc, lastWrite, lastRead>>
vars == <<modVars, goVars, connVars, srvVars, rpcVars, gateVars, routeVars, timerVars, parserVars>>

Mods == 1..NumMods
Subs == 1..MaxSubs
Plains == 1..MaxPlain
Agents == 1..NumAgents
Timers == 1..NumTimers
Callers == 1..NumCallers
Socks == 1..NumSocks
Calls == 1..MaxCalls
\* the goroutine started by newTCPConn (the callers are 1..NumCallers)
WriterTask == 0

(***************************************************************************)
(* Initial states of the subsystems.                                       *)
(***************************************************************************)
\* after Register has been called NumMods times: closeSig empty, wg zero
InitModule ==
    /\ mainPc = "oninit"
    /\ mainI = 1
    /\ closeSig = [m \in Mods |-> 0]
    /\ wg = [m \in Mods |-> 0]
    /\ runPc = [m \in Mods |-> "none"]
    /\ modLog = <<>>

\* after g.New(ChanCbLen) and NewLinearContext()
InitGo ==
    /\ pendingGo = 0
    /\ chanCb = <<>>
    /\ linearGo = <<>>
    /\ mutexExecution = 0
    /\ goPc = [k \in Subs |-> "none"]
    /\ goE = [k \in Subs |-> 0]
    /\ submitted = 0
    /\ ownerPc = "run"
    /\ execLog = <<>>
    /\ postLog = <<>>
    /\ cbLog = <<>>
    /\ plainPc = [p \in Plains |-> "none"]
    /\ cbSeen = {}
    /\ fPanicked = {}

\* after newTCPConn: queue empty, writer goroutine started
InitConn ==
    /\ writeChan = <<>>
    /\ chanClosed = FALSE
    /\ closeFlag = FALSE
    /\ mutex = 0
    /\ callPc = [t \in Callers |-> "idle"]
    /\ callArg = [t \in Callers |-> 0]
    /\ writerPc = "recv"
    /\ writerB = 0
    /\ sockClosed = FALSE
    /\ sockLog = <<>>
    /\ enqLog = <<>>
    /\ nextBuf = 1
    /\ fullCount = 0
    /\ destroyCount = 0
    /\ writeErr = FALSE
    /\ chanPanic = FALSE
    /\ lastRet = <<"none", "none">>
    /\ sockWriting = {}

\* a TCPServer value before Start: no listener task, empty set, counters 0
InitServer ==
    /\ closerPc = "new"
    /\ lnClosed = FALSE
    /\ wgLn = 0
    /\ wgConns = 0
    /\ conns = {}
    /\ mutexConns = FALSE
    /\ acceptPc = "none"
    /\ acceptConn = 0
    /\ nextSock = 1
    /\ agentPc = [c \in Socks |-> "none"]
    /\ rawClosed = {}
    /\ rejected = {}
    /\ runErr = <<0, "none">>
    /\ agentLog = [c \in Socks |-> <<>>]

\* after NewServer(ChanCallLen), Register and Open(AsynRetLen)
InitRpc ==
    /\ ChanCall = <<>>
    /\ chanCallClosed = FALSE
    /\ chanSyncRet = <<>>
    /\ ChanAsynRet = <<>>
    /\ pendingAsynCall = 0
    /\ cliPc = "idle"
    /\ cliCi = [ser |-> 0, id |-> "none", chanRet |-> "none", cb |-> -1]
    /\ execPc = "idle"
    /\ execCi = [ser |-> 0, id |-> "none", chanRet |-> "none", cb |-> -1]
    /\ execRi = [ser |-> 0, ret |-> "nil", err |-> <<"nil", "">>, cb |-> -1]
    /\ execPanic = "none"
    /\ execErr = <<"nil", "">>
    /\ nCalls = 0
    /\ lastCall = [ser |-> 0, op |-> "none", id |-> "none", n |-> 0,
                   err |-> <<"nil", "">>]
    /\ asynOk = 0
    /\ cbCalls = 0
    /\ syncCb = 0
    /\ dequeued = [k \in Calls |-> 0]
    /\ invoked = [k \in Calls |-> 0]
    /\ delivered = [k \in Calls |-> 0]
    /\ closeK = 0
    /\ closeRecv = 0
    /\ srvGoPc = "idle"
    /\ srvGoCi = [ser |-> 0, id |-> "none", chanRet |-> "none", cb |-> -1]
    /\ lastDeq = 0
    /\ lastRecv = 0

\* the logic module has not registered its functions yet and the accept
\* task has accepted no connection
InitGate ==
    /\ closeAgentShape = -1
    /\ agentCall = <<>>
    /\ agentRpcClosed = FALSE
    /\ agentRet = [a \in Agents |-> <<>>]
    /\ onClosePc = [a \in Agents |-> "none"]
    /\ onCloseErr = [a \in Agents |-> <<"nil", "">>]
    /\ logicPc = "init"
    /\ logicCi = 0
    /\ handled = {}
    /\ gateWg = 0
    /\ gateCloserPc = "idle"
    /\ newAgentReg = FALSE
    /\ accPc = "accept"
    /\ accA = 0
    /\ logicOp = "none"
    /\ agentSent = <<>>
    /\ agentExec = <<>>

\* the read task has routed nothing yet, the router's channel is empty
InitRoute ==
    /\ routePc = "idle"
    /\ routeMsg = "none"
    /\ routeK = 0
    /\ routeRet = <<"none", "">>
    /\ routeLog = <<>>
    /\ routerCall = <<>>
    /\ routerClosed = FALSE

\* after NewDispatcher: no timer registered, the channel empty
InitTimer ==
    /\ tmUnder = [t \in Timers |-> "none"]
    /\ tmCb = [t \in Timers |-> "nil"]
    /\ nextTimer = 1
    /\ ChanTimer = <<>>
    /\ timerPc = "idle"
    /\ timerCur = 0
    /\ cronT = 0
    /\ cronState = "none"
    /\ cronTimers = {}
    /\ tmStopped = [t \in Timers |-> FALSE]
    /\ stopFound = [t \in Timers |-> "none"]
    /\ tmInvoked = [t \in Timers |-> 0]
    /\ tmCbCalls = [t \in Timers |-> 0]
    /\ cronStopped = "no"
    /\ cronRuns = 0

\* no frame produced yet (the value of frames' elements and lastRead.from)
NoFrame == [by |-> "none", args |-> <<>>]

\* after NewMsgParser: prefix of 2 bytes, lengths 1..4096, big endian; nothing
\* written to the connection, the read loop running
InitParser ==
    /\ lenMsgLen = 2
    /\ minMsgLen = 1
    /\ maxMsgLen = 4096
    /\ littleEndian = FALSE
    /\ parserPc = "new"
    /\ wire = <<>>
    /\ wireClosed = FALSE
    /\ frames = <<>>
    /\ nFrames = 0
    /\ readPc = "reading"
    /\ lastWrite = [args |-> <<>>, err |-> "none", enq |-> <<>>]
    /\ lastRead = [stage |-> "none", err |-> "none", len |-> <<0, 0>>, data |-> <<>>,
                   consumed |-> 0, from |-> NoFrame]

Init == InitModule /\ InitGo /\ InitConn /\ InitServer /\ InitRpc /\ InitGate
        /\ InitRoute /\ InitTimer /\ InitParser

(***************************************************************************)
(* Module lifecycle (module/module.go).                                    *)
(***************************************************************************)
\* an Init with a single loop, which starts the goroutine of a module right
\* after its OnInit
InitOnInitAndRun ==
    /\ mainPc = "oninit"
    /\ modLog' = Append(modLog, <<"oninit", mainI>>)
    /\ runPc' = [runPc EXCEPT ![mainI] = "spawned"]
    /\ IF mainI < NumMods
         THEN /\ mainI' = mainI + 1
              /\ mainPc' = mainPc
         ELSE /\ mainI' = 0
              /\ mainPc' = "idle"
    /\ UNCHANGED <<closeSig, wg>>
    /\ UNCHANGED <<goVars, connVars, srvVars, rpcVars, gateVars, routeVars, timerVars, parserVars>>

\* Init, first loop: mods[i].mi.OnInit() in registration order
InitOnInit ==
    /\ mainPc = "oninit"
    /\ modLog' = Append(modLog, <<"oninit", mainI>>)
    /\ IF mainI < NumMods
         THEN /\ mainI' = mainI + 1
              /\ mainPc' = mainPc
         ELSE /\ mainI' = 1
              /\ mainPc' = "spawn"
    /\ UNCHANGED <<closeSig, wg, runPc>>
    /\ UNCHANGED <<goVars, connVars, srvVars, rpcVars, gateVars, routeVars, timerVars, parserVars>>

\* Init, second loop: go run(mods[i]); Init returns after the last one
InitSpawn ==
    /\ mainPc = "spawn"
    /\ runPc' = [runPc EXCEPT ![mainI] = "spawned"]
    /\ IF mainI < NumMods
         THEN /\ mainI' = mainI + 1
              /\ mainPc' = mainPc
         ELSE /\ mainI' = 0
              /\ mainPc' = "idle"
    /\ UNCHANGED <<closeSig, wg, modLog>>
    /\ UNCHANGED <<goVars, connVars, srvVars, rpcVars, gateVars, routeVars, timerVars, parserVars>>

\* run: m.wg.Add(1), executed by the spawned goroutine, then Run is entered
RunAdd(m) ==
    /\ runPc[m] = "spawned"
    /\ wg' = [wg EXCEPT ![m] = @ + 1]
    /\ runPc' = [runPc EXCEPT ![m] = "running"]
    /\ UNCHANGED <<mainPc, mainI, closeSig, modLog>>
    /\ UNCHANGED <<goVars, connVars, srvVars, rpcVars, gateVars, routeVars, timerVars, parserVars>>

\* m.mi.Run(closeSig): the module runs until it receives the close signal
\* (gate.Run: <-closeSig, then it shuts its servers down and returns)
RunReturn(m) ==
    /\ runPc[m] = "running"
    /\ closeSig[m] > 0
    /\ closeSig' = [closeSig EXCEPT ![m] = @ - 1]
    /\ runPc' = [runPc EXCEPT ![m] = "returned"]
    /\ UNCHANGED <<mainPc, mainI, wg, modLog>>
    /\ UNCHANGED <<goVars, connVars, srvVars, rpcVars, gateVars, routeVars, timerVars, parserVars>>

\* run: m.wg.Done(), after which the goroutine has exited
RunDone(m) ==
    /\ runPc[m] = "returned"
    /\ wg' = [wg EXCEPT ![m] = @ - 1]
    /\ runPc' = [runPc EXCEPT ![m] = "exited"]
    /\ UNCHANGED <<mainPc, mainI, closeSig, modLog>>
    /\ UNCHANGED <<goVars, connVars, srvVars, rpcVars, gateVars, routeVars, timerVars, parserVars>>

\* the modules in the order Destroy's loop visits them:
\* for i := len(mods) - 1; i >= 0; i--
DestroyOrderForward == [k \in 1..NumMods |-> k]
DestroyOrder == [k \in 1..NumMods |-> NumMods + 1 - k]

\* the module m := mods[i] of the current iteration of Destroy's loop
DestroyMod == DestroyOrder[mainI]

\* Destroy is called, at any time after Init has returned
DestroyCall ==
    /\ mainPc = "idle"
    /\ mainI' = 1
    /\ mainPc' = "signal"
    /\ UNCHANGED <<closeSig, wg, runPc, modLog>>
    /\ UNCHANGED <<goVars, connVars, srvVars, rpcVars, gateVars, routeVars, timerVars, parserVars>>

\* Destroy: m.closeSig <- true (the channel has capacity 1, see Register)
DestroySignal ==
    /\ mainPc = "signal"
    /\ closeSig[DestroyMod] < 1
    /\ closeSig' = [closeSig EXCEPT ![DestroyMod] = @ + 1]
    /\ modLog' = Append(modLog, <<"signal", DestroyMod>>)
    /\ mainPc' = "wait"
    /\ UNCHANGED <<mainI, wg, runPc>>
    /\ UNCHANGED <<goVars, connVars, srvVars, rpcVars, gateVars, routeVars, timerVars, parserVars>>

\* Destroy: m.wg.Wait() returns when the counter is zero
DestroyWait ==
    /\ mainPc = "wait"
    /\ wg[DestroyMod] = 0
    /\ mainPc' = "ondestroy"
    /\ UNCHANGED <<mainI, closeSig, wg, runPc, modLog>>
    /\ UNCHANGED <<goVars, connVars, srvVars, rpcVars, gateVars, routeVars, timerVars, parserVars>>

\* destroy(m): m.mi.OnDestroy() begins
DestroyOnDestroy ==
    /\ mainPc = "ondestroy"
    /\ modLog' = Append(modLog, <<"ondestroy", DestroyMod>>)
    /\ mainPc' = "indestroy"
    /\ UNCHANGED <<mainI, closeSig, wg, runPc>>
    /\ UNCHANGED <<goVars, connVars, srvVars, rpcVars, gateVars, routeVars, timerVars, parserVars>>

\* a destroy without recover(): the panic of OnDestroy ends Destroy
DestroyReturnAbort ==
    /\ mainPc = "indestroy"
    /\ \E panicked \in BOOLEAN :
         /\ modLog' = Append(modLog, <<IF panicked THEN "panic" ELSE "destroyed", DestroyMod>>)
         /\ IF mainI < NumMods /\ ~panicked
              THEN /\ mainI' = mainI + 1
                   /\ mainPc' = "signal"
              ELSE /\ mainI' = mainI
                   /\ mainPc' = "done"
    /\ UNCHANGED <<closeSig, wg, runPc>>
    /\ UNCHANGED <<goVars, connVars, srvVars, rpcVars, gateVars, routeVars, timerVars, parserVars>>

\* destroy(m): OnDestroy returns or panics (the deferred recover logs the
\* panic); either way destroy returns and the loop goes on to the next module
DestroyReturn ==
    /\ mainPc = "indestroy"
    /\ \E panicked \in BOOLEAN :
         modLog' = Append(modLog, <<IF panicked THEN "panic" ELSE "destroyed", DestroyMod>>)
    /\ IF mainI < NumMods
         THEN /\ mainI' = mainI + 1
              /\ mainPc' = "signal"
         ELSE /\ mainI' = mainI
              /\ mainPc' = "done"
    /\ UNCHANGED <<closeSig, wg, runPc>>
    /\ UNCHANGED <<goVars, connVars, srvVars, rpcVars, gateVars, routeVars, timerVars, parserVars>>

NextModule ==
    \/ InitOnInit
    \/ InitSpawn
    \/ \E m \in Mods : RunAdd(m)
    \/ \E m \in Mods : RunReturn(m)
    \/ \E m \in Mods : RunDone(m)
    \/ DestroyCall
    \/ DestroySignal
    \/ DestroyWait
    \/ DestroyOnDestroy
    \/ DestroyReturn

SpecModule == Init /\ [][NextModule]_vars

\* every runnable goroutine is scheduled, a module's Run returns once it
\* has the close signal, and OnDestroy ends (by return or by panic)
FairSpecModule ==
    /\ SpecModule
    /\ WF_vars(DestroySignal)
    /\ WF_vars(DestroyWait)
    /\ WF_vars(DestroyOnDestroy)
    /\ WF_vars(DestroyReturn)
    /\ \A m \in Mods :
         WF_vars(RunAdd(m)) /\ WF_vars(RunReturn(m)) /\ WF_vars(RunDone(m))

(***************************************************************************)
(* Offload engine and linear context (package g in network/ws_client.go).  *)
(***************************************************************************)
\* what the cb of a submission can be: nil, a function that returns, a
\* function that panics
CbKinds == {"nil", "returns", "panics"}

\* c.linearGo.PushBack(&LinearGo{f: f, cb: cb})
PushBack(l, e) == Append(l, e)

\* LinearContext.Go on the owning task: pendingGo++, append {f, cb} to the
\* list under mutexLinearGo, spawn the task of this submission
LinearGo ==
    /\ ownerPc = "run"
    /\ submitted < MaxSubs
    /\ submitted' = submitted + 1
    /\ pendingGo' = pendingGo + 1
    /\ linearGo' = PushBack(linearGo, submitted + 1)
    /\ goPc' = [goPc EXCEPT ![submitted + 1] = "start"]
    /\ UNCHANGED <<chanCb, mutexExecution, goE, ownerPc, execLog, postLog, cbLog>>
    /\ UNCHANGED <<plainPc, cbSeen, fPanicked>>
    /\ UNCHANGED <<modVars, connVars, srvVars, rpcVars, gateVars, routeVars, timerVars, parserVars>>

\* c.mutexExecution.Lock() succeeds only while no task holds the lock
ExecutionLockIgnored == TRUE
ExecutionLockFree == mutexExecution = 0

\* spawned task: c.mutexExecution.Lock()
LinearLock(k) ==
    /\ goPc[k] = "start"
    /\ ExecutionLockFree
    /\ mutexExecution' = k
    /\ goPc' = [goPc EXCEPT ![k] = "locked"]
    /\ UNCHANGED <<pendingGo, chanCb, linearGo, goE, submitted, ownerPc, execLog,
                   postLog, cbLog>>
    /\ UNCHANGED <<plainPc, cbSeen, fPanicked>>
    /\ UNCHANGED <<modVars, connVars, srvVars, rpcVars, gateVars, routeVars, timerVars, parserVars>>

\* the element the task takes: c.linearGo.Front()
OwnElement(k) == k
FrontElement(k) == Head(linearGo)

\* the list l without its first occurrence of e: c.linearGo.Remove(e)
RECURSIVE Remove(_, _)
Remove(l, e) ==
    IF l = <<>> THEN <<>>
    ELSE IF Head(l) = e THEN Tail(l)
    ELSE <<Head(l)>> \o Remove(Tail(l), e)

\* spawned task: under mutexLinearGo, e := Remove(Front())
LinearPop(k) ==
    /\ goPc[k] = "locked"
    /\ goE' = [goE EXCEPT ![k] = FrontElement(k)]
    /\ linearGo' = Remove(linearGo, FrontElement(k))
    /\ goPc' = [goPc EXCEPT ![k] = "popped"]
    /\ UNCHANGED <<pendingGo, chanCb, mutexExecution, submitted, ownerPc, execLog,
                   postLog, cbLog>>
    /\ UNCHANGED <<plainPc, cbSeen, fPanicked>>
    /\ UNCHANGED <<modVars, connVars, srvVars, rpcVars, gateVars, routeVars, timerVars, parserVars>>

\* spawned task: e.f() starts
LinearRun(k) ==
    /\ goPc[k] = "popped"
    /\ execLog' = Append(execLog, goE[k])
    /\ goPc' = [goPc EXCEPT ![k] = "running"]
    /\ UNCHANGED <<pendingGo, chanCb, linearGo, mutexExecution, goE, submitted,
                   ownerPc, postLog, cbLog>>
    /\ UNCHANGED <<plainPc, cbSeen, fPanicked>>
    /\ UNCHANGED <<modVars, connVars, srvVars, rpcVars, gateVars, routeVars, timerVars, parserVars>>

\* spawned task: e.f() returns or panics, after any amount of time; the
\* deferred functions run in both cases (the panic is recovered and logged)
LinearFinish(k) ==
    /\ goPc[k] = "running"
    /\ goPc' = [goPc EXCEPT ![k] = "finished"]
    /\ UNCHANGED <<pendingGo, chanCb, linearGo, mutexExecution, goE, submitted,
                   ownerPc, execLog, postLog, cbLog>>
    /\ UNCHANGED <<plainPc, cbSeen, fPanicked>>
    /\ UNCHANGED <<modVars, connVars, srvVars, rpcVars, gateVars, routeVars, timerVars, parserVars>>

\* the two deferred calls in the other order: the lock is released first
\* and the callback is sent afterwards
LinearPostAfterUnlock(k) ==
    /\ goPc[k] = "finished"
    /\ \/ /\ mutexExecution = k
          /\ mutexExecution' = 0
          /\ UNCHANGED <<chanCb, postLog, goPc>>
       \/ /\ mutexExecution # k
          /\ Len(chanCb) < ChanCbLen
          /\ chanCb' = Append(chanCb, goE[k])
          /\ postLog' = Append(postLog, goE[k])
          /\ goPc' = [goPc EXCEPT ![k] = "exited"]
          /\ UNCHANGED mutexExecution
    /\ UNCHANGED <<pendingGo, linearGo, goE, submitted, ownerPc, execLog, cbLog>>
    /\ UNCHANGED <<plainPc, cbSeen, fPanicked>>
    /\ UNCHANGED <<modVars, connVars, srvVars, rpcVars, gateVars, routeVars, timerVars, parserVars>>

\* spawned task, last deferred function (runs first): c.g.ChanCb <- e.cb,
\* which blocks while the channel is full
LinearPost(k) ==
    /\ goPc[k] = "finished"
    /\ Len(chanCb) < ChanCbLen
    /\ chanCb' = Append(chanCb, goE[k])
    /\ postLog' = Append(postLog, goE[k])
    /\ goPc' = [goPc EXCEPT ![k] = "posted"]
    /\ UNCHANGED <<pendingGo, linearGo, mutexExecution, goE, submitted, ownerPc,
                   execLog, cbLog>>
    /\ UNCHANGED <<plainPc, cbSeen, fPanicked>>
    /\ UNCHANGED <<modVars, connVars, srvVars, rpcVars, gateVars, routeVars, timerVars, parserVars>>

\* spawned task, first deferred function (runs last): c.mutexExecution.Unlock()
LinearUnlock(k) ==
    /\ goPc[k] = "posted"
    /\ mutexExecution' = 0
    /\ goPc' = [goPc EXCEPT ![k] = "exited"]
    /\ UNCHANGED <<pendingGo, chanCb, linearGo, goE, submitted, ownerPc, execLog,
                   postLog, cbLog>>
    /\ UNCHANGED <<plainPc, cbSeen, fPanicked>>
    /\ UNCHANGED <<modVars, connVars, srvVars, rpcVars, gateVars, routeVars, timerVars, parserVars>>

\* the callback of submission p of Go.Go, as it stands on ChanCb (the
\* callbacks of the linear context are the positive numbers)
PlainCb(p) == 0 - p

\* Go.Go on the owning task: g.pendingGo++ and the go statement
PlainGo ==
    /\ ownerPc = "run"
    /\ \E p \in Plains :
         /\ plainPc[p] = "none"
         /\ \A q \in Plains : q < p => plainPc[q] # "none"
         /\ plainPc' = [plainPc EXCEPT ![p] = "go"]
    /\ pendingGo' = pendingGo + 1
    /\ UNCHANGED <<chanCb, linearGo, mutexExecution, goPc, goE, submitted, ownerPc,
                   execLog, postLog, cbLog, cbSeen, fPanicked>>
    /\ UNCHANGED <<modVars, connVars, srvVars, rpcVars, gateVars, routeVars, timerVars, parserVars>>

\* task of Go.Go: f() runs and returns or panics, after any amount of
\* time; the deferred function runs in both cases
PlainRun(p) ==
    /\ plainPc[p] = "go"
    /\ plainPc' = [plainPc EXCEPT ![p] = "finished"]
    /\ \E panicked \in BOOLEAN :
         fPanicked' = IF panicked THEN fPanicked \cup {p} ELSE fPanicked
    /\ UNCHANGED <<pendingGo, chanCb, linearGo, mutexExecution, goPc, goE, submitted,
                   ownerPc, execLog, postLog, cbLog, cbSeen>>
    /\ UNCHANGED <<modVars, connVars, srvVars, rpcVars, gateVars, routeVars, timerVars, parserVars>>

\* a deferred function that sends the callback only when f returned
PlainPostUnlessPanic(p) ==
    /\ plainPc[p] = "finished"
    /\ p \in fPanicked \/ Len(chanCb) < ChanCbLen
    /\ chanCb' = IF p \in fPanicked THEN chanCb ELSE Append(chanCb, PlainCb(p))
    /\ plainPc' = [plainPc EXCEPT ![p] = "exited"]
    /\ UNCHANGED <<pendingGo, linearGo, mutexExecution, goPc, goE, submitted, ownerPc,
                   execLog, postLog, cbLog, cbSeen, fPanicked>>
    /\ UNCHANGED <<modVars, connVars, srvVars, rpcVars, gateVars, routeVars, timerVars, parserVars>>

\* task of Go.Go, deferred function: g.ChanCb <- cb, which blocks while the
\* channel is full, then recover() (a panic of f is logged); the task ends
PlainPost(p) ==
    /\ plainPc[p] = "finished"
    /\ Len(chanCb) < ChanCbLen
    /\ chanCb' = Append(chanCb, PlainCb(p))
    /\ plainPc' = [plainPc EXCEPT ![p] = "exited"]
    /\ UNCHANGED <<pendingGo, linearGo, mutexExecution, goPc, goE, submitted, ownerPc,
                   execLog, postLog, cbLog, cbSeen, fPanicked>>
    /\ UNCHANGED <<modVars, connVars, srvVars, rpcVars, gateVars, routeVars, timerVars, parserVars>>

\* a Cb that leaves the counter alone when the callback panics
GoCbPanicKeepsCounter ==
    /\ ownerPc \in {"run", "closing"}
    /\ ownerPc = "closing" => pendingGo > 0
    /\ chanCb # <<>>
    /\ cbLog' = Append(cbLog, Head(chanCb))
    /\ chanCb' = Tail(chanCb)
    /\ \E kind \in CbKinds :
         /\ cbSeen' = cbSeen \cup {kind}
         /\ pendingGo' = IF kind = "panics" THEN pendingGo ELSE pendingGo - 1
    /\ UNCHANGED <<linearGo, mutexExecution, goPc, goE, submitted, ownerPc, execLog,
                   postLog>>
    /\ UNCHANGED <<plainPc, fPanicked>>
    /\ UNCHANGED <<modVars, connVars, srvVars, rpcVars, gateVars, routeVars, timerVars, parserVars>>

\* owning task: g.Cb(<-g.ChanCb), called directly or from the loop of Close:
\* the callback is invoked (a panic in it is recovered) and pendingGo--
GoCb ==
    /\ ownerPc \in {"run", "closing"}
    /\ ownerPc = "closing" => pendingGo > 0
    /\ chanCb # <<>>
    /\ cbLog' = Append(cbLog, Head(chanCb))
    /\ chanCb' = Tail(chanCb)
    /\ \E kind \in CbKinds : cbSeen' = cbSeen \cup {kind}
    /\ pendingGo' = pendingGo - 1
    /\ UNCHANGED <<linearGo, mutexExecution, goPc, goE, submitted, ownerPc, execLog,
                   postLog>>
    /\ UNCHANGED <<plainPc, fPanicked>>
    /\ UNCHANGED <<modVars, connVars, srvVars, rpcVars, gateVars, routeVars, timerVars, parserVars>>

\* owning task: g.Close() is called
GoClose ==
    /\ ownerPc = "run"
    /\ ownerPc' = "closing"
    /\ UNCHANGED <<pendingGo, chanCb, linearGo, mutexExecution, goPc, goE, submitted,
                   execLog, postLog, cbLog>>
    /\ UNCHANGED <<plainPc, cbSeen, fPanicked>>
    /\ UNCHANGED <<modVars, connVars, srvVars, rpcVars, gateVars, routeVars, timerVars, parserVars>>

\* owning task: g.Close() returns when its loop finds pendingGo = 0
GoCloseReturn ==
    /\ ownerPc = "closing"
    /\ pendingGo <= 0
    /\ ownerPc' = "closed"
    /\ UNCHANGED <<pendingGo, chanCb, linearGo, mutexExecution, goPc, goE, submitted,
                   execLog, postLog, cbLog>>
    /\ UNCHANGED <<plainPc, cbSeen, fPanicked>>
    /\ UNCHANGED <<modVars, connVars, srvVars, rpcVars, gateVars, routeVars, timerVars, parserVars>>

NextGo ==
    \/ LinearGo
    \/ PlainGo
    \/ \E p \in Plains : PlainRun(p)
    \/ \E p \in Plains : PlainPost(p)
    \/ \E k \in Subs : LinearLock(k)
    \/ \E k \in Subs : LinearPop(k)
    \/ \E k \in Subs : LinearRun(k)
    \/ \E k \in Subs : LinearFinish(k)
    \/ \E k \in Subs : LinearPost(k)
    \/ \E k \in Subs : LinearUnlock(k)
    \/ GoCb
    \/ GoClose
    \/ GoCloseReturn

SpecGo == Init /\ [][NextGo]_vars

\* every f ends, every task is scheduled, a task that waits for the
\* execution lock or for room on ChanCb gets it in the end (both wait in
\* a queue), and the owning task goes on with the loop of Close
FairSpecGo ==
    /\ SpecGo
    /\ \A k \in Subs :
         /\ SF_vars(LinearLock(k))
         /\ WF_vars(LinearPop(k))
         /\ WF_vars(LinearRun(k))
         /\ WF_vars(LinearFinish(k))
         /\ SF_vars(LinearPost(k))
         /\ WF_vars(LinearUnlock(k))
    /\ \A p \in Plains : WF_vars(PlainRun(p)) /\ SF_vars(PlainPost(p))
    /\ WF_vars(ownerPc = "closing" /\ GoCb)
    /\ WF_vars(GoCloseReturn)

(***************************************************************************)
(* Connection (network/tcp_conn.go; WSConn in the same shape).             *)
(* Buffers are numbered 1, 2, ...; 0 stands for nil.  Callers hold the     *)
(* connection mutex from the Lock step to the step that returns.           *)
(***************************************************************************)
\* doWrite's test: len(tcpConn.writeChan) == cap(tcpConn.writeChan)
NeverFull == FALSE
IsFull == Len(writeChan) = PendingWriteNum

\* tcpConn.writeChan <- b on a channel holding q
EnqueueFront(q, b) == <<b>> \o q
Enqueue(q, b) == Append(q, b)

\* Write's test under the lock: tcpConn.closeFlag || b == nil
WriteRejectsNilOnly(t) == callArg[t] = 0
WriteRejected(t) == closeFlag \/ callArg[t] = 0

\* Close's and Destroy's test under the lock: tcpConn.closeFlag
CloseNeverRejected == FALSE
CloseRejected == closeFlag

\* the caller returns: the deferred tcpConn.Unlock() runs
Return(t, call, outcome) ==
    /\ mutex' = 0
    /\ lastRet' = <<call, outcome>>
    /\ callPc' = [callPc EXCEPT ![t] = "idle"]
    /\ callArg' = [callArg EXCEPT ![t] = 0]

\* doDestroy without close(tcpConn.writeChan)
DoDestroyQueueLeftOpen ==
    /\ sockClosed' = TRUE
    /\ closeFlag' = TRUE
    /\ destroyCount' = destroyCount + 1
    /\ UNCHANGED <<chanClosed, chanPanic>>

\* doDestroy that leaves the socket open
DoDestroySocketLeftOpen ==
    /\ chanClosed' = TRUE
    /\ chanPanic' = (chanPanic \/ chanClosed)
    /\ closeFlag' = TRUE
    /\ destroyCount' = destroyCount + 1
    /\ UNCHANGED sockClosed

\* doDestroy: SetLinger(0), conn.Close(), close(writeChan), closeFlag = true
\* (closing a channel that is already closed panics)
DoDestroy ==
    /\ sockClosed' = TRUE
    /\ chanClosed' = TRUE
    /\ chanPanic' = (chanPanic \/ chanClosed)
    /\ closeFlag' = TRUE
    /\ destroyCount' = destroyCount + 1

\* the buffers a caller may hand to Write: nil or the next fresh buffer
WriteArgs == {0} \cup (IF nextBuf <= MaxBufs THEN {nextBuf} ELSE {})

\* a Write that enters without waiting for the connection lock
WriteLockShared(t) ==
    /\ callPc[t] = "idle"
    /\ \E b \in WriteArgs :
         /\ callArg' = [callArg EXCEPT ![t] = b]
         /\ nextBuf' = IF b = 0 THEN nextBuf ELSE nextBuf + 1
    /\ mutex' = t
    /\ callPc' = [callPc EXCEPT ![t] = "Write"]
    /\ UNCHANGED <<writeChan, chanClosed, closeFlag, writerPc, writerB, sockClosed,
                   sockLog, enqLog, fullCount, destroyCount, writeErr, chanPanic, lastRet>>
    /\ UNCHANGED <<sockWriting, modVars, goVars, srvVars, rpcVars, gateVars, routeVars, timerVars, parserVars>>

\* Write(b) is called: tcpConn.Lock()
WriteLock(t) ==
    /\ callPc[t] = "idle"
    /\ mutex = 0
    /\ \E b \in WriteArgs :
         /\ callArg' = [callArg EXCEPT ![t] = b]
         /\ nextBuf' = IF b = 0 THEN nextBuf ELSE nextBuf + 1
    /\ mutex' = t
    /\ callPc' = [callPc EXCEPT ![t] = "Write"]
    /\ UNCHANGED <<writeChan, chanClosed, closeFlag, writerPc, writerB, sockClosed,
                   sockLog, enqLog, fullCount, destroyCount, writeErr, chanPanic, lastRet>>
    /\ UNCHANGED <<sockWriting, modVars, goVars, srvVars, rpcVars, gateVars, routeVars, timerVars, parserVars>>

\* Write: the test of closeFlag and b, then doWrite's test of the queue:
\* a full queue is logged ("channel full") and the connection destroyed
WriteCheck(t) ==
    /\ callPc[t] = "Write"
    /\ IF WriteRejected(t)
         THEN /\ Return(t, "Write", IF closeFlag THEN "closed" ELSE "nil")
              /\ UNCHANGED <<chanClosed, closeFlag, sockClosed, fullCount,
                             destroyCount, chanPanic>>
         ELSE IF IsFull
           THEN /\ fullCount' = fullCount + 1
                /\ DoDestroy
                /\ Return(t, "Write", "full")
           ELSE /\ callPc' = [callPc EXCEPT ![t] = "WriteSend"]
                /\ UNCHANGED <<mutex, callArg, lastRet, chanClosed, closeFlag, sockClosed,
                               fullCount, destroyCount, chanPanic>>
    /\ UNCHANGED <<writeChan, writerPc, writerB, sockLog, enqLog, nextBuf, writeErr>>
    /\ UNCHANGED <<sockWriting, modVars, goVars, srvVars, rpcVars, gateVars, routeVars, timerVars, parserVars>>

\* the channel send of doWrite: it panics on a closed channel and blocks
\* while the channel is full
Send(b) ==
    IF chanClosed
      THEN /\ chanPanic' = TRUE
           /\ UNCHANGED <<writeChan, enqLog>>
      ELSE /\ Len(writeChan) < PendingWriteNum
           /\ writeChan' = Enqueue(writeChan, b)
           /\ enqLog' = Append(enqLog, b)
           /\ UNCHANGED chanPanic

\* a Write that hands b to the socket itself instead of the queue
WriteDirect(t) ==
    /\ callPc[t] = "WriteSend"
    /\ sockWriting' = sockWriting \cup {t}
    /\ Return(t, "Write", "sent")
    /\ UNCHANGED <<writeChan, enqLog, chanPanic>>
    /\ UNCHANGED <<chanClosed, closeFlag, writerPc, writerB, sockClosed, sockLog,
                   nextBuf, fullCount, destroyCount, writeErr>>
    /\ UNCHANGED <<modVars, goVars, srvVars, rpcVars, gateVars, routeVars, timerVars, parserVars>>

\* Write: doWrite sends b on the queue, Write returns
WriteSend(t) ==
    /\ callPc[t] = "WriteSend"
    /\ Send(callArg[t])
    /\ Return(t, "Write", "sent")
    /\ UNCHANGED <<chanClosed, closeFlag, writerPc, writerB, sockClosed, sockLog,
                   nextBuf, fullCount, destroyCount, writeErr>>
    /\ UNCHANGED <<sockWriting, modVars, goVars, srvVars, rpcVars, gateVars, routeVars, timerVars, parserVars>>

\* Close() is called: tcpConn.Lock()
CloseLock(t) ==
    /\ callPc[t] = "idle"
    /\ mutex = 0
    /\ mutex' = t
    /\ callPc' = [callPc EXCEPT ![t] = "Close"]
    /\ UNCHANGED <<writeChan, chanClosed, closeFlag, callArg, writerPc, writerB,
                   sockClosed, sockLog, enqLog, nextBuf, fullCount, destroyCount,
                   writeErr, chanPanic, lastRet>>
    /\ UNCHANGED <<sockWriting, modVars, goVars, srvVars, rpcVars, gateVars, routeVars, timerVars, parserVars>>

\* Close: the test of closeFlag, then doWrite(nil)'s test of the queue; on a
\* full queue doDestroy runs, and Close sets closeFlag and returns
CloseCheck(t) ==
    /\ callPc[t] = "Close"
    /\ IF CloseRejected
         THEN /\ Return(t, "Close", "closed")
              /\ UNCHANGED <<chanClosed, closeFlag, sockClosed, fullCount,
                             destroyCount, chanPanic>>
         ELSE IF IsFull
           THEN /\ fullCount' = fullCount + 1
                /\ DoDestroy
                /\ Return(t, "Close", "full")
           ELSE /\ callPc' = [callPc EXCEPT ![t] = "CloseSend"]
                /\ UNCHANGED <<mutex, callArg, lastRet, chanClosed, closeFlag, sockClosed,
                               fullCount, destroyCount, chanPanic>>
    /\ UNCHANGED <<writeChan, writerPc, writerB, sockLog, enqLog, nextBuf, writeErr>>
    /\ UNCHANGED <<sockWriting, modVars, goVars, srvVars, rpcVars, gateVars, routeVars, timerVars, parserVars>>

\* Close: doWrite sends nil on the queue, Close sets closeFlag and returns
CloseSend(t) ==
    /\ callPc[t] = "CloseSend"
    /\ Send(0)
    /\ closeFlag' = TRUE
    /\ Return(t, "Close", "sent")
    /\ UNCHANGED <<chanClosed, writerPc, writerB, sockClosed, sockLog, nextBuf,
                   fullCount, destroyCount, writeErr>>
    /\ UNCHANGED <<sockWriting, modVars, goVars, srvVars, rpcVars, gateVars, routeVars, timerVars, parserVars>>

\* Destroy() is called: tcpConn.Lock()
DestroyLock(t) ==
    /\ callPc[t] = "idle"
    /\ mutex = 0
    /\ mutex' = t
    /\ callPc' = [callPc EXCEPT ![t] = "Destroy"]
    /\ UNCHANGED <<writeChan, chanClosed, closeFlag, callArg, writerPc, writerB,
                   sockClosed, sockLog, enqLog, nextBuf, fullCount, destroyCount,
                   writeErr, chanPanic, lastRet>>
    /\ UNCHANGED <<sockWriting, modVars, goVars, srvVars, rpcVars, gateVars, routeVars, timerVars, parserVars>>

\* a Destroy that does not test closeFlag
DestroyUnchecked(t) ==
    /\ callPc[t] = "Destroy"
    /\ DoDestroy
    /\ Return(t, "Destroy", "destroyed")
    /\ UNCHANGED <<writeChan, writerPc, writerB, sockLog, enqLog, nextBuf, fullCount,
                   writeErr>>
    /\ UNCHANGED <<sockWriting, modVars, goVars, srvVars, rpcVars, gateVars, routeVars, timerVars, parserVars>>

\* Destroy: the test of closeFlag, then doDestroy
DestroyBody(t) ==
    /\ callPc[t] = "Destroy"
    /\ IF CloseRejected
         THEN UNCHANGED <<chanClosed, closeFlag, sockClosed, destroyCount, chanPanic>>
         ELSE DoDestroy
    /\ Return(t, "Destroy", IF closeFlag THEN "closed" ELSE "destroyed")
    /\ UNCHANGED <<writeChan, writerPc, writerB, sockLog, enqLog, nextBuf, fullCount,
                   writeErr>>
    /\ UNCHANGED <<sockWriting, modVars, goVars, srvVars, rpcVars, gateVars, routeVars, timerVars, parserVars>>

\* writer task: for b := range writeChan receives the next value, or ends
\* when the channel is closed and empty; a nil value breaks the loop, any
\* other value is handed to conn.Write(b), which is then in progress
WriterRecv ==
    /\ writerPc = "recv"
    /\ IF writeChan # <<>>
         THEN /\ writeChan' = Tail(writeChan)
              /\ writerB' = Head(writeChan)
              /\ writerPc' = IF Head(writeChan) = 0 THEN "cleanup" ELSE "write"
              /\ sockWriting' = IF Head(writeChan) = 0
                                  THEN sockWriting
                                  ELSE sockWriting \cup {WriterTask}
         ELSE /\ chanClosed
              /\ writerPc' = "cleanup"
              /\ UNCHANGED <<writeChan, writerB, sockWriting>>
    /\ UNCHANGED <<chanClosed, closeFlag, mutex, callPc, callArg, sockClosed, sockLog,
                   enqLog, nextBuf, fullCount, destroyCount, writeErr, chanPanic, lastRet>>
    /\ UNCHANGED <<modVars, goVars, srvVars, rpcVars, gateVars, routeVars, timerVars, parserVars>>

\* writer task: conn.Write(b) returns; it fails on a closed socket and may fail on
\* an open one (peer reset, socket closed by the server); an error breaks
\* the loop
WriterWrite ==
    /\ writerPc = "write"
    /\ sockWriting' = sockWriting \ {WriterTask}
    /\ \E ok \in BOOLEAN :
         IF ok /\ ~sockClosed
           THEN /\ sockLog' = Append(sockLog, writerB)
                /\ writerPc' = "recv"
                /\ UNCHANGED writeErr
           ELSE /\ writerPc' = "cleanup"
                /\ writeErr' = (writeErr \/ ~sockClosed)
                /\ UNCHANGED sockLog
    /\ UNCHANGED <<writeChan, chanClosed, closeFlag, mutex, callPc, callArg, writerB,
                   sockClosed, enqLog, nextBuf, fullCount, destroyCount, chanPanic, lastRet>>
    /\ UNCHANGED <<modVars, goVars, srvVars, rpcVars, gateVars, routeVars, timerVars, parserVars>>

\* writer task, cleanup: conn.Close()
WriterCloseConn ==
    /\ writerPc = "cleanup"
    /\ sockClosed' = TRUE
    /\ writerPc' = "setflag"
    /\ UNCHANGED <<writeChan, chanClosed, closeFlag, mutex, callPc, callArg, writerB,
                   sockLog, enqLog, nextBuf, fullCount, destroyCount, writeErr,
                   chanPanic, lastRet>>
    /\ UNCHANGED <<sockWriting, modVars, goVars, srvVars, rpcVars, gateVars, routeVars, timerVars, parserVars>>

\* writer task, cleanup: Lock(); closeFlag = true; Unlock(); the task exits
WriterSetFlag ==
    /\ writerPc = "setflag"
    /\ mutex = 0
    /\ closeFlag' = TRUE
    /\ writerPc' = "exit"
    /\ UNCHANGED <<writeChan, chanClosed, mutex, callPc, callArg, writerB, sockClosed,
                   sockLog, enqLog, nextBuf, fullCount, destroyCount, writeErr,
                   chanPanic, lastRet>>
    /\ UNCHANGED <<sockWriting, modVars, goVars, srvVars, rpcVars, gateVars, routeVars, timerVars, parserVars>>

\* the steps of a caller that is inside a call
CallerStep(t) ==
    \/ WriteCheck(t)
    \/ WriteSend(t)
    \/ CloseCheck(t)
    \/ CloseSend(t)
    \/ DestroyBody(t)

\* the steps of the writer task
WriterStep ==
    \/ WriterRecv
    \/ WriterWrite
    \/ WriterCloseConn
    \/ WriterSetFlag

NextConn ==
    \/ \E t \in Callers : WriteLock(t)
    \/ \E t \in Callers : CloseLock(t)
    \/ \E t \in Callers : DestroyLock(t)
    \/ \E t \in Callers : CallerStep(t)
    \/ WriterStep

SpecConn == Init /\ [][NextConn]_vars

\* scheduling: a task that can take a step eventually takes it, the socket
\* write eventually returns, and sync.Mutex hands the lock to a waiting task
\* (starvation mode), hence strong fairness for the writer's Lock
FairSpecConn ==
    /\ SpecConn
    /\ \A t \in Callers : WF_vars(CallerStep(t))
    /\ WF_vars(WriterRecv)
    /\ WF_vars(WriterWrite)
    /\ WF_vars(WriterCloseConn)
    /\ SF_vars(WriterSetFlag)

(***************************************************************************)
(* TCP acceptor (TCPServer: Start, run, Close) and its per-connection      *)
(* agent tasks.  Sockets are numbered 1, 2, ... in the order Accept        *)
(* returns them.  The lock mutexConns is taken in a step of its own and    *)
(* released by the step that follows it.                                   *)
(***************************************************************************)
\* run's test under the lock: len(server.conns) >= server.MaxConnNum
CapExceeded == Cardinality(conns) > MaxConnNum
CapReached == Cardinality(conns) >= MaxConnNum

\* Start: init() listens, then `go server.run()`
ServerStart ==
    /\ closerPc = "new"
    /\ closerPc' = "run"
    /\ acceptPc' = "spawned"
    /\ UNCHANGED <<lnClosed, wgLn, wgConns, conns, mutexConns, acceptConn, nextSock,
                   agentPc, rawClosed, rejected, runErr, agentLog>>
    /\ UNCHANGED <<modVars, goVars, connVars, rpcVars, gateVars, routeVars, timerVars, parserVars>>

\* run, first statement, executed by the spawned task: server.wgLn.Add(1)
AcceptAdd ==
    /\ acceptPc = "spawned"
    /\ wgLn' = wgLn + 1
    /\ acceptPc' = "accept"
    /\ UNCHANGED <<lnClosed, wgConns, conns, mutexConns, acceptConn, nextSock,
                   agentPc, rawClosed, rejected, runErr, agentLog, closerPc>>
    /\ UNCHANGED <<modVars, goVars, connVars, rpcVars, gateVars, routeVars, timerVars, parserVars>>

\* run: server.ln.Accept() returns a new socket (never on a closed listener)
AcceptOk ==
    /\ acceptPc = "accept"
    /\ ~lnClosed
    /\ nextSock <= NumSocks
    /\ acceptConn' = nextSock
    /\ nextSock' = nextSock + 1
    /\ acceptPc' = "lock"
    /\ UNCHANGED <<lnClosed, wgLn, wgConns, conns, mutexConns, agentPc, rawClosed,
                   rejected, runErr, agentLog, closerPc>>
    /\ UNCHANGED <<modVars, goVars, connVars, rpcVars, gateVars, routeVars, timerVars, parserVars>>

\* run: Accept fails on the closed listener with an error that is not
\* temporary; run returns and its deferred server.wgLn.Done() runs
AcceptFail ==
    /\ acceptPc = "accept"
    /\ lnClosed
    /\ wgLn' = wgLn - 1
    /\ acceptPc' = "exited"
    /\ UNCHANGED <<lnClosed, wgConns, conns, mutexConns, acceptConn, nextSock,
                   agentPc, rawClosed, rejected, runErr, agentLog, closerPc>>
    /\ UNCHANGED <<modVars, goVars, connVars, rpcVars, gateVars, routeVars, timerVars, parserVars>>

\* run: server.mutexConns.Lock()
AcceptLock ==
    /\ acceptPc = "lock"
    /\ ~mutexConns
    /\ mutexConns' = TRUE
    /\ acceptPc' = "body"
    /\ UNCHANGED <<lnClosed, wgLn, wgConns, conns, acceptConn, nextSock, agentPc,
                   rawClosed, rejected, runErr, agentLog, closerPc>>
    /\ UNCHANGED <<modVars, goVars, connVars, rpcVars, gateVars, routeVars, timerVars, parserVars>>

\* run, under the lock: at the cap the socket is closed and the loop
\* continues; otherwise the socket joins server.conns; Unlock() either way
AcceptBody ==
    /\ acceptPc = "body"
    /\ mutexConns' = FALSE
    /\ IF CapReached
         THEN /\ rawClosed' = rawClosed \cup {acceptConn}
              /\ rejected' = rejected \cup {acceptConn}
              /\ acceptPc' = "accept"
              /\ UNCHANGED conns
         ELSE /\ conns' = conns \cup {acceptConn}
              /\ acceptPc' = "spawn"
              /\ UNCHANGED <<rawClosed, rejected>>
    /\ UNCHANGED <<lnClosed, wgLn, wgConns, acceptConn, nextSock, agentPc, runErr,
                   agentLog, closerPc>>
    /\ UNCHANGED <<modVars, goVars, connVars, rpcVars, gateVars, routeVars, timerVars, parserVars>>

\* run: server.wgConns.Add(1), newTCPConn, server.NewAgent(tcpConn) and the
\* go statement that starts the agent's task
AcceptSpawn ==
    /\ acceptPc = "spawn"
    /\ wgConns' = wgConns + 1
    /\ agentPc' = [agentPc EXCEPT ![acceptConn] = "run"]
    /\ acceptPc' = "accept"
    /\ UNCHANGED <<lnClosed, wgLn, conns, mutexConns, acceptConn, nextSock,
                   rawClosed, rejected, runErr, agentLog, closerPc>>
    /\ UNCHANGED <<modVars, goVars, connVars, rpcVars, gateVars, routeVars, timerVars, parserVars>>

\* the errors that end agent.Run's loop
RunErrors == {"ReadMsg", "Unmarshal", "Route"}

\* agent.Run: ReadMsg, Unmarshal or Route returns an error and the loop
\* breaks (an iteration without error changes nothing here); ReadMsg fails
\* in particular once the socket has been closed
AgentRun(c) ==
    /\ agentPc[c] = "run"
    /\ \E err \in RunErrors : runErr' = <<c, err>>
    /\ agentPc' = [agentPc EXCEPT ![c] = "close"]
    /\ UNCHANGED <<lnClosed, wgLn, wgConns, conns, mutexConns, acceptPc, acceptConn,
                   nextSock, rawClosed, rejected, agentLog, closerPc>>
    /\ UNCHANGED <<modVars, goVars, connVars, rpcVars, gateVars, routeVars, timerVars, parserVars>>

\* agent task after Run: tcpConn.Close()
AgentClose(c) ==
    /\ agentPc[c] = "close"
    /\ agentLog' = [agentLog EXCEPT ![c] = Append(@, "Close")]
    /\ agentPc' = [agentPc EXCEPT ![c] = "lock"]
    /\ UNCHANGED <<lnClosed, wgLn, wgConns, conns, mutexConns, acceptPc, acceptConn,
                   nextSock, rawClosed, rejected, runErr, closerPc>>
    /\ UNCHANGED <<modVars, goVars, connVars, rpcVars, gateVars, routeVars, timerVars, parserVars>>

\* agent task: server.mutexConns.Lock()
AgentLock(c) ==
    /\ agentPc[c] = "lock"
    /\ ~mutexConns
    /\ mutexConns' = TRUE
    /\ agentPc' = [agentPc EXCEPT ![c] = "delete"]
    /\ UNCHANGED <<lnClosed, wgLn, wgConns, conns, acceptPc, acceptConn, nextSock,
                   rawClosed, rejected, runErr, agentLog, closerPc>>
    /\ UNCHANGED <<modVars, goVars, connVars, rpcVars, gateVars, routeVars, timerVars, parserVars>>

\* an agent task that unlocks without deleting its socket from the set
AgentDeleteKept(c) ==
    /\ agentPc[c] = "delete"
    /\ mutexConns' = FALSE
    /\ agentLog' = [agentLog EXCEPT ![c] = Append(@, "delete")]
    /\ agentPc' = [agentPc EXCEPT ![c] = "onclose"]
    /\ UNCHANGED <<lnClosed, wgLn, wgConns, conns, acceptPc, acceptConn, nextSock,
                   rawClosed, rejected, runErr, closerPc>>
    /\ UNCHANGED <<modVars, goVars, connVars, rpcVars, gateVars, routeVars, timerVars, parserVars>>

\* agent task: delete(server.conns, conn); server.mutexConns.Unlock()
AgentDelete(c) ==
    /\ agentPc[c] = "delete"
    /\ conns' = conns \ {c}
    /\ mutexConns' = FALSE
    /\ agentLog' = [agentLog EXCEPT ![c] = Append(@, "delete")]
    /\ agentPc' = [agentPc EXCEPT ![c] = "onclose"]
    /\ UNCHANGED <<lnClosed, wgLn, wgConns, acceptPc, acceptConn, nextSock,
                   rawClosed, rejected, runErr, closerPc>>
    /\ UNCHANGED <<modVars, goVars, connVars, rpcVars, gateVars, routeVars, timerVars, parserVars>>

\* agent task: agent.OnClose() is called and returns
AgentOnClose(c) ==
    /\ agentPc[c] = "onclose"
    /\ agentLog' = [agentLog EXCEPT ![c] = Append(@, "OnClose")]
    /\ agentPc' = [agentPc EXCEPT ![c] = "done"]
    /\ UNCHANGED <<lnClosed, wgLn, wgConns, conns, mutexConns, acceptPc, acceptConn,
                   nextSock, rawClosed, rejected, runErr, closerPc>>
    /\ UNCHANGED <<modVars, goVars, connVars, rpcVars, gateVars, routeVars, timerVars, parserVars>>

\* agent task, last statement: server.wgConns.Done()
AgentDone(c) ==
    /\ agentPc[c] = "done"
    /\ wgConns' = wgConns - 1
    /\ agentPc' = [agentPc EXCEPT ![c] = "end"]
    /\ UNCHANGED <<lnClosed, wgLn, conns, mutexConns, acceptPc, acceptConn, nextSock,
                   rawClosed, rejected, runErr, agentLog, closerPc>>
    /\ UNCHANGED <<modVars, goVars, connVars, rpcVars, gateVars, routeVars, timerVars, parserVars>>

\* Close: server.ln.Close()
CloseLn ==
    /\ closerPc = "run"
    /\ lnClosed' = TRUE
    /\ closerPc' = "wait"
    /\ UNCHANGED <<wgLn, wgConns, conns, mutexConns, acceptPc, acceptConn, nextSock,
                   agentPc, rawClosed, rejected, runErr, agentLog>>
    /\ UNCHANGED <<modVars, goVars, connVars, rpcVars, gateVars, routeVars, timerVars, parserVars>>

\* Close: server.wgLn.Wait() returns when the counter is zero
CloseWaitLn ==
    /\ closerPc = "wait"
    /\ wgLn = 0
    /\ closerPc' = "lock"
    /\ UNCHANGED <<lnClosed, wgLn, wgConns, conns, mutexConns, acceptPc, acceptConn,
                   nextSock, agentPc, rawClosed, rejected, runErr, agentLog>>
    /\ UNCHANGED <<modVars, goVars, connVars, rpcVars, gateVars, routeVars, timerVars, parserVars>>

\* Close: server.mutexConns.Lock()
CloseLockConns ==
    /\ closerPc = "lock"
    /\ ~mutexConns
    /\ mutexConns' = TRUE
    /\ closerPc' = "body"
    /\ UNCHANGED <<lnClosed, wgLn, wgConns, conns, acceptPc, acceptConn, nextSock,
                   agentPc, rawClosed, rejected, runErr, agentLog>>
    /\ UNCHANGED <<modVars, goVars, connVars, rpcVars, gateVars, routeVars, timerVars, parserVars>>

\* Close, under the lock: conn.Close() on every socket of the set, then
\* server.conns = make(ConnSet) and Unlock()
CloseConns ==
    /\ closerPc = "body"
    /\ rawClosed' = rawClosed \cup conns
    /\ conns' = {}
    /\ mutexConns' = FALSE
    /\ closerPc' = "waitconns"
    /\ UNCHANGED <<lnClosed, wgLn, wgConns, acceptPc, acceptConn, nextSock,
                   agentPc, rejected, runErr, agentLog>>
    /\ UNCHANGED <<modVars, goVars, connVars, rpcVars, gateVars, routeVars, timerVars, parserVars>>

\* Close: server.wgConns.Wait() returns when the counter is zero
CloseWaitConns ==
    /\ closerPc = "waitconns"
    /\ wgConns = 0
    /\ closerPc' = "returned"
    /\ UNCHANGED <<lnClosed, wgLn, wgConns, conns, mutexConns, acceptPc, acceptConn,
                   nextSock, agentPc, rawClosed, rejected, runErr, agentLog>>
    /\ UNCHANGED <<modVars, goVars, connVars, rpcVars, gateVars, routeVars, timerVars, parserVars>>

\* the teardown steps of an agent task that do not wait for the lock
AgentTeardown(c) ==
    \/ AgentClose(c)
    \/ AgentDelete(c)
    \/ AgentOnClose(c)
    \/ AgentDone(c)

NextServer ==
    \/ ServerStart
    \/ AcceptAdd
    \/ AcceptOk
    \/ AcceptFail
    \/ AcceptLock
    \/ AcceptBody
    \/ AcceptSpawn
    \/ \E c \in Socks : AgentRun(c)
    \/ \E c \in Socks : AgentLock(c)
    \/ \E c \in Socks : AgentTeardown(c)
    \/ CloseLn
    \/ CloseWaitLn
    \/ CloseLockConns
    \/ CloseConns
    \/ CloseWaitConns

SpecServer == Init /\ [][NextServer]_vars

\* scheduling: an agent task that has left Run takes its next step, a
\* task holding mutexConns goes on to release it, and sync.Mutex hands
\* mutexConns to a waiting task (starvation mode), hence strong fairness
\* for the agent's Lock
FairSpecServer ==
    /\ SpecServer
    /\ WF_vars(AcceptBody)
    /\ WF_vars(CloseConns)
    /\ \A c \in Socks : WF_vars(AgentTeardown(c))
    /\ \A c \in Socks : SF_vars(AgentLock(c))

(***************************************************************************)
(* Channel RPC (chanrpc/chanrpc.go): one server task, one client used by   *)
(* one task, and a task that posts with Server.Go.  Call descriptors are   *)
(* numbered 1, 2, ... in the order they are created.  An error is a pair   *)
(* <<text, detail>>; the nil error is <<"nil", "">>.                       *)
(***************************************************************************)
\* Server.functions after Register of "f0", "f1" and "fn": the shape of
\* each id, which is the n of Client.f (0 no result, 1 one result, 2 a
\* slice of results)
functions == [f0 |-> 0, f1 |-> 1, fn |-> 2]

\* the ids callers use: the registered ones and one that is not registered
Ids == DOMAIN functions \cup {"nope"}

\* the values a registered function may panic with
PanicValues == {"boom"}

NilErr == <<"nil", "">>

\* a Client.f that only looks the id up
ClientFLookupOnly(id, n) ==
    IF id \notin DOMAIN functions
      THEN <<"function not registered", id>>
      ELSE NilErr

\* Client.f: the error for calling id with expected shape n
ClientF(id, n) ==
    IF id \notin DOMAIN functions
      THEN <<"function not registered", id>>
      ELSE IF functions[id] # n
             THEN <<"return type mismatch", id>>
             ELSE NilErr

\* a send that puts x in front of what the channel holds
ChanSendFront(q, x) == <<x>> \o q

\* ch <- x on a buffered channel that holds q and has room
ChanSend(q, x) == Append(q, x)

\* Client.call with block = false that takes the descriptor although the
\* call channel is full
CallNoWaitUnbounded ==
    IF chanCallClosed
      THEN <<"send on closed channel", "">>
      ELSE NilErr

\* Client.call with block = false: the recovered panic of a send on the
\* closed channel, else the select's default when the channel is full
CallNoWait ==
    IF chanCallClosed
      THEN <<"send on closed channel", "">>
      ELSE IF Len(ChanCall) >= ChanCallLen
             THEN <<"chanrpc channel full", "">>
             ELSE NilErr

\* the call descriptor &CallInfo{f, args, chanRet, cb}; cb is the shape of
\* the callback, -1 when there is none
CallInfo(id, chanRet, cb) ==
    [ser |-> nCalls + 1, id |-> id, chanRet |-> chanRet, cb |-> cb]

\* Cb panics instead of invoking the callback: ri.ret.([]interface{}) on a
\* nil ri.ret, which is what an error descriptor carries
CbPanics(ri) == ri.cb = 2 /\ ri.ret = "nil"

\* the value of c.pendingAsynCall after Cb(ri)
CbCounter(ri) == IF CbPanics(ri) THEN pendingAsynCall ELSE pendingAsynCall - 1

\* Call0 / Call1 / CallN, first part: Client.f; on an error the call
\* returns it, otherwise the descriptor is built and the send is next
CliCall(id, n) ==
    /\ cliPc = "idle"
    /\ nCalls < MaxCalls
    /\ IF ClientF(id, n) # NilErr
         THEN /\ lastCall' = [ser |-> nCalls + 1, op |-> "Call", id |-> id, n |-> n,
                              err |-> ClientF(id, n)]
              /\ UNCHANGED <<cliPc, cliCi>>
         ELSE /\ cliPc' = "send"
              /\ cliCi' = CallInfo(id, "sync", -1)
              /\ UNCHANGED lastCall
    /\ nCalls' = nCalls + 1
    /\ UNCHANGED <<ChanCall, chanCallClosed, chanSyncRet, ChanAsynRet, pendingAsynCall,
                   execPc, execCi, execRi, execPanic, execErr, asynOk, cbCalls,
                   syncCb, dequeued, invoked, delivered, closeK, closeRecv>>
    /\ UNCHANGED <<srvGoPc, srvGoCi, lastDeq, lastRecv>>
    /\ UNCHANGED <<modVars, goVars, connVars, srvVars, gateVars, routeVars, timerVars, parserVars>>

\* Call*: c.call(ci, true): the send blocks while the channel is full; on
\* the closed channel it panics, call recovers and the error is returned
CliSend ==
    /\ cliPc = "send"
    /\ IF chanCallClosed
         THEN /\ lastCall' = [ser |-> cliCi.ser, op |-> "Call", id |-> cliCi.id,
                              n |-> functions[cliCi.id],
                              err |-> <<"send on closed channel", "">>]
              /\ cliPc' = "idle"
              /\ cliCi' = [ser |-> 0, id |-> "none", chanRet |-> "none", cb |-> -1]
              /\ UNCHANGED ChanCall
         ELSE /\ Len(ChanCall) < ChanCallLen
              /\ ChanCall' = ChanSend(ChanCall, cliCi)
              /\ cliPc' = "wait"
              /\ UNCHANGED <<lastCall, cliCi>>
    /\ UNCHANGED <<chanCallClosed, chanSyncRet, ChanAsynRet, pendingAsynCall,
                   execPc, execCi, execRi, execPanic, execErr, nCalls, asynOk, cbCalls,
                   syncCb, dequeued, invoked, delivered, closeK, closeRecv>>
    /\ UNCHANGED <<srvGoPc, srvGoCi, lastDeq, lastRecv>>
    /\ UNCHANGED <<modVars, goVars, connVars, srvVars, gateVars, routeVars, timerVars, parserVars>>

\* Call*: ri := <-c.chanSyncRet and the return; CallN evaluates
\* ri.ret.([]interface{}), which panics when ri.ret is nil
CliRecv ==
    /\ cliPc = "wait"
    /\ chanSyncRet # <<>>
    /\ chanSyncRet' = Tail(chanSyncRet)
    /\ IF functions[cliCi.id] = 2 /\ Head(chanSyncRet).ret = "nil"
         THEN /\ cliPc' = "panicked"
              /\ UNCHANGED lastCall
         ELSE /\ cliPc' = "idle"
              /\ lastCall' = [ser |-> cliCi.ser, op |-> "Call", id |-> cliCi.id,
                              n |-> functions[cliCi.id],
                              err |-> Head(chanSyncRet).err]
    /\ cliCi' = [ser |-> 0, id |-> "none", chanRet |-> "none", cb |-> -1]
    /\ UNCHANGED <<ChanCall, chanCallClosed, ChanAsynRet, pendingAsynCall,
                   execPc, execCi, execRi, execPanic, execErr, nCalls, asynOk, cbCalls,
                   syncCb, dequeued, invoked, delivered, closeK, closeRecv>>
    /\ UNCHANGED <<srvGoPc, srvGoCi, lastDeq, lastRecv>>
    /\ UNCHANGED <<modVars, goVars, connVars, srvVars, gateVars, routeVars, timerVars, parserVars>>

\* AsynCall with a callback of shape n: asynCall does Client.f and the
\* non-blocking send; on success c.pendingAsynCall++, on an error AsynCall
\* invokes the callback with it before it returns
CliAsynCall(id, n) ==
    /\ cliPc = "idle"
    /\ nCalls < MaxCalls
    /\ nCalls' = nCalls + 1
    /\ IF ClientF(id, n) # NilErr
         THEN /\ lastCall' = [ser |-> nCalls + 1, op |-> "AsynCall", id |-> id, n |-> n,
                              err |-> ClientF(id, n)]
              /\ syncCb' = syncCb + 1
              /\ UNCHANGED <<ChanCall, pendingAsynCall, asynOk>>
         ELSE IF CallNoWait # NilErr
           THEN /\ lastCall' = [ser |-> nCalls + 1, op |-> "AsynCall", id |-> id, n |-> n,
                                err |-> CallNoWait]
                /\ syncCb' = syncCb + 1
                /\ UNCHANGED <<ChanCall, pendingAsynCall, asynOk>>
           ELSE /\ ChanCall' = ChanSend(ChanCall, CallInfo(id, "asyn", n))
                /\ pendingAsynCall' = pendingAsynCall + 1
                /\ asynOk' = asynOk + 1
                /\ lastCall' = [ser |-> nCalls + 1, op |-> "AsynCall", id |-> id, n |-> n,
                                err |-> NilErr]
                /\ UNCHANGED syncCb
    /\ UNCHANGED <<chanCallClosed, chanSyncRet, ChanAsynRet, cliPc, cliCi,
                   execPc, execCi, execRi, execPanic, execErr, cbCalls,
                   dequeued, invoked, delivered, closeK, closeRecv>>
    /\ UNCHANGED <<srvGoPc, srvGoCi, lastDeq, lastRecv>>
    /\ UNCHANGED <<modVars, goVars, connVars, srvVars, gateVars, routeVars, timerVars, parserVars>>

\* the client's task receives from c.ChanAsynRet and calls c.Cb(ri): the
\* callback is invoked and c.pendingAsynCall--, unless Cb panics first
CliCb ==
    /\ cliPc = "idle"
    /\ ChanAsynRet # <<>>
    /\ ChanAsynRet' = Tail(ChanAsynRet)
    /\ lastRecv' = Head(ChanAsynRet).ser
    /\ cbCalls' = cbCalls + 1
    /\ pendingAsynCall' = CbCounter(Head(ChanAsynRet))
    /\ cliPc' = IF CbPanics(Head(ChanAsynRet)) THEN "panicked" ELSE "idle"
    /\ UNCHANGED <<ChanCall, chanCallClosed, chanSyncRet, cliCi, lastCall,
                   execPc, execCi, execRi, execPanic, execErr, nCalls, asynOk,
                   syncCb, dequeued, invoked, delivered, closeK, closeRecv>>
    /\ UNCHANGED <<srvGoPc, srvGoCi, lastDeq>>
    /\ UNCHANGED <<modVars, goVars, connVars, srvVars, gateVars, routeVars, timerVars, parserVars>>

\* a Client.Close that never enters its loop
CloseAlwaysDone(k) == TRUE

\* Client.Close's loop ends: !(c.pendingAsynCall > 0), for the counter k
CloseDone(k) == k <= 0

\* Client.Close is called: it returns at once when the loop test fails
CliClose ==
    /\ cliPc = "idle"
    /\ closeK' = pendingAsynCall
    /\ closeRecv' = 0
    /\ cliPc' = IF CloseDone(pendingAsynCall) THEN "closed" ELSE "closing"
    /\ UNCHANGED <<ChanCall, chanCallClosed, chanSyncRet, ChanAsynRet, pendingAsynCall,
                   cliCi, lastCall, execPc, execCi, execRi, execPanic, execErr, nCalls,
                   asynOk, cbCalls, syncCb, dequeued, invoked, delivered>>
    /\ UNCHANGED <<srvGoPc, srvGoCi, lastDeq, lastRecv>>
    /\ UNCHANGED <<modVars, goVars, connVars, srvVars, gateVars, routeVars, timerVars, parserVars>>

\* Client.Close, one iteration: c.Cb(<-c.ChanAsynRet), then the loop test
CliCloseCb ==
    /\ cliPc = "closing"
    /\ ChanAsynRet # <<>>
    /\ ChanAsynRet' = Tail(ChanAsynRet)
    /\ lastRecv' = Head(ChanAsynRet).ser
    /\ cbCalls' = cbCalls + 1
    /\ closeRecv' = closeRecv + 1
    /\ pendingAsynCall' = CbCounter(Head(ChanAsynRet))
    /\ cliPc' = IF CbPanics(Head(ChanAsynRet))
                  THEN "panicked"
                  ELSE IF CloseDone(CbCounter(Head(ChanAsynRet)))
                         THEN "closed"
                         ELSE "closing"
    /\ UNCHANGED <<ChanCall, chanCallClosed, chanSyncRet, cliCi, lastCall,
                   execPc, execCi, execRi, execPanic, execErr, nCalls, asynOk,
                   syncCb, dequeued, invoked, delivered, closeK>>
    /\ UNCHANGED <<srvGoPc, srvGoCi, lastDeq>>
    /\ UNCHANGED <<modVars, goVars, connVars, srvVars, gateVars, routeVars, timerVars, parserVars>>

\* the ids Server.Go is called with: a registered function that returns a
\* value, and an id that is not registered
GoIds == {"f1", "nope"}

\* a lookup that finds a function for every id
FunctionOfAny(id) == id

\* f := s.functions[id]: the function registered for id, "nil" for none
FunctionOf(id) == IF id \in DOMAIN functions THEN id ELSE "nil"

\* Server.Go(id, args) up to its send: it returns at once for an id that
\* is not registered, else it builds the descriptor without return channel
ServerGo(id) ==
    /\ srvGoPc # "send"
    /\ nCalls < MaxCalls
    /\ nCalls' = nCalls + 1
    /\ IF FunctionOf(id) # "nil"
         THEN /\ srvGoPc' = "send"
              /\ srvGoCi' = CallInfo(FunctionOf(id), "none", -1)
         ELSE /\ srvGoPc' = "unregistered"
              /\ UNCHANGED srvGoCi
    /\ UNCHANGED <<ChanCall, chanCallClosed, chanSyncRet, ChanAsynRet, pendingAsynCall,
                   cliPc, cliCi, lastCall, execPc, execCi, execRi, execPanic, execErr,
                   asynOk, cbCalls, syncCb, dequeued, invoked, delivered, closeK,
                   closeRecv>>
    /\ UNCHANGED <<lastDeq, lastRecv>>
    /\ UNCHANGED <<modVars, goVars, connVars, srvVars, gateVars, routeVars, timerVars, parserVars>>

\* Server.Go: s.ChanCall <- &CallInfo{f: f, args: args}, which blocks while
\* the channel is full; the panic of the send on the closed channel is
\* recovered by the deferred function and Go returns
ServerGoSend ==
    /\ srvGoPc = "send"
    /\ IF chanCallClosed
         THEN /\ srvGoPc' = "recovered"
              /\ UNCHANGED ChanCall
         ELSE /\ Len(ChanCall) < ChanCallLen
              /\ ChanCall' = ChanSend(ChanCall, srvGoCi)
              /\ srvGoPc' = "sent"
    /\ srvGoCi' = [ser |-> 0, id |-> "none", chanRet |-> "none", cb |-> -1]
    /\ UNCHANGED <<chanCallClosed, chanSyncRet, ChanAsynRet, pendingAsynCall, cliPc,
                   cliCi, lastCall, execPc, execCi, execRi, execPanic, execErr, nCalls,
                   asynOk, cbCalls, syncCb, dequeued, invoked, delivered, closeK,
                   closeRecv>>
    /\ UNCHANGED <<lastDeq, lastRecv>>
    /\ UNCHANGED <<modVars, goVars, connVars, srvVars, gateVars, routeVars, timerVars, parserVars>>

\* a receive that leaves the descriptor on the channel
DequeuePeek(q) == q

\* what is left on the channel after a receive
Dequeue(q) == Tail(q)

\* the return descriptor Exec builds when the function returns normally:
\* &RetInfo{} for shape 0, &RetInfo{ret: ret} otherwise
NormalRet(ci) ==
    [ser |-> ci.ser,
     ret |-> IF functions[ci.id] = 0 THEN "nil"
             ELSE IF functions[ci.id] = 1 THEN "value" ELSE "slice",
     err |-> NilErr,
     cb |-> ci.cb]

\* a recovery that reports no error
RecoveredRetNoErr(ci, r) ==
    [ser |-> ci.ser, ret |-> "nil", err |-> NilErr, cb |-> ci.cb]

\* the return descriptor Exec's deferred function builds after recover():
\* &RetInfo{err: fmt.Errorf("%v", r)}
RecoveredRet(ci, r) ==
    [ser |-> ci.ser, ret |-> "nil", err |-> <<r, "">>, cb |-> ci.cb]

\* a drain that would answer without an error
ClosedRetNilErr(ci) ==
    [ser |-> ci.ser, ret |-> "nil", err |-> NilErr, cb |-> ci.cb]

\* the return descriptor Server.Close builds for a descriptor it drains
ClosedRet(ci) ==
    [ser |-> ci.ser, ret |-> "nil", err |-> <<"chanrpc server closed", "">>, cb |-> ci.cb]

\* the server task receives a descriptor from ChanCall and calls Exec: the
\* function runs, returning normally or panicking with r, and Exec (or its
\* deferred function after recover()) arrives at s.ret
ExecCall ==
    /\ execPc = "idle"
    /\ ChanCall # <<>>
    /\ ChanCall' = Dequeue(ChanCall)
    /\ execCi' = Head(ChanCall)
    /\ dequeued' = [dequeued EXCEPT ![Head(ChanCall).ser] = @ + 1]
    /\ invoked' = [invoked EXCEPT ![Head(ChanCall).ser] = @ + 1]
    /\ \E r \in PanicValues \cup {"none"} :
         /\ execPanic' = r
         /\ execRi' = IF r = "none"
                        THEN NormalRet(Head(ChanCall))
                        ELSE RecoveredRet(Head(ChanCall), r)
    /\ execPc' = "ret"
    /\ lastDeq' = IF Head(ChanCall).chanRet = "none" THEN lastDeq
                   ELSE Head(ChanCall).ser
    /\ UNCHANGED <<chanCallClosed, chanSyncRet, ChanAsynRet, pendingAsynCall, cliPc,
                   cliCi, lastCall, execErr, nCalls, asynOk, cbCalls, syncCb,
                   delivered, closeK, closeRecv>>
    /\ UNCHANGED <<srvGoPc, srvGoCi, lastRecv>>
    /\ UNCHANGED <<modVars, goVars, connVars, srvVars, gateVars, routeVars, timerVars, parserVars>>

\* s.ret(ci, ri): nothing without return channel, else ci.chanRet <- ri,
\* which blocks while that channel is full
Ret(ci, ri) ==
    IF ci.chanRet = "none"
      THEN UNCHANGED <<chanSyncRet, ChanAsynRet, delivered>>
      ELSE /\ delivered' = [delivered EXCEPT ![ci.ser] = @ + 1]
           /\ IF ci.chanRet = "sync"
                THEN /\ Len(chanSyncRet) < 1
                     /\ chanSyncRet' = ChanSend(chanSyncRet, ri)
                     /\ UNCHANGED ChanAsynRet
                ELSE /\ Len(ChanAsynRet) < AsynRetLen
                     /\ ChanAsynRet' = ChanSend(ChanAsynRet, ri)
                     /\ UNCHANGED chanSyncRet

\* Exec: s.ret delivers the return descriptor and Exec returns; after a
\* panic its result is the error built from r, with the stack trace when
\* conf.LenStackBuf > 0
ExecRet ==
    /\ execPc = "ret"
    /\ Ret(execCi, execRi)
    /\ execErr' = IF execPanic = "none" THEN NilErr
                   ELSE <<execPanic, IF LenStackBuf > 0 THEN "stack" ELSE "">>
    /\ execPc' = "idle"
    /\ execCi' = [ser |-> 0, id |-> "none", chanRet |-> "none", cb |-> -1]
    /\ execRi' = [ser |-> 0, ret |-> "nil", err |-> <<"nil", "">>, cb |-> -1]
    /\ UNCHANGED <<ChanCall, chanCallClosed, pendingAsynCall, cliPc, cliCi, lastCall,
                   execPanic, nCalls, asynOk, cbCalls, syncCb,
                   dequeued, invoked, closeK, closeRecv>>
    /\ UNCHANGED <<srvGoPc, srvGoCi, lastDeq, lastRecv>>
    /\ UNCHANGED <<modVars, goVars, connVars, srvVars, gateVars, routeVars, timerVars, parserVars>>

\* Server.Close, called by the server task: close(s.ChanCall)
SrvClose ==
    /\ execPc = "idle"
    /\ chanCallClosed' = TRUE
    /\ execPc' = "drain"
    /\ UNCHANGED <<ChanCall, chanSyncRet, ChanAsynRet, pendingAsynCall, cliPc, cliCi,
                   lastCall, execCi, execRi, execPanic, execErr, nCalls, asynOk,
                   cbCalls, syncCb, dequeued, invoked, delivered, closeK, closeRecv>>
    /\ UNCHANGED <<srvGoPc, srvGoCi, lastDeq, lastRecv>>
    /\ UNCHANGED <<modVars, goVars, connVars, srvVars, gateVars, routeVars, timerVars, parserVars>>

\* Server.Close: for ci := range s.ChanCall { s.ret(ci, closed) }; the
\* loop ends when the closed channel is empty
SrvDrain ==
    /\ execPc = "drain"
    /\ IF ChanCall = <<>>
         THEN /\ execPc' = "closed"
              /\ UNCHANGED <<ChanCall, chanSyncRet, ChanAsynRet, dequeued, delivered,
                             lastDeq>>
         ELSE /\ ChanCall' = Dequeue(ChanCall)
              /\ lastDeq' = IF Head(ChanCall).chanRet = "none" THEN lastDeq
                             ELSE Head(ChanCall).ser
              /\ dequeued' = [dequeued EXCEPT ![Head(ChanCall).ser] = @ + 1]
              /\ Ret(Head(ChanCall), ClosedRet(Head(ChanCall)))
              /\ UNCHANGED execPc
    /\ UNCHANGED <<chanCallClosed, pendingAsynCall, cliPc, cliCi, lastCall, execCi,
                   execRi, execPanic, execErr, nCalls, asynOk, cbCalls, syncCb,
                   invoked, closeK, closeRecv>>
    /\ UNCHANGED <<srvGoPc, srvGoCi, lastRecv>>
    /\ UNCHANGED <<modVars, goVars, connVars, srvVars, gateVars, routeVars, timerVars, parserVars>>

NextRpc ==
    \/ \E id \in Ids, n \in 0..2 : CliCall(id, n)
    \/ CliSend
    \/ CliRecv
    \/ \E id \in Ids, n \in 0..2 : CliAsynCall(id, n)
    \/ CliCb
    \/ CliClose
    \/ CliCloseCb
    \/ \E id \in GoIds : ServerGo(id)
    \/ ServerGoSend
    \/ ExecCall
    \/ ExecRet
    \/ SrvClose
    \/ SrvDrain

SpecRpc == Init /\ [][NextRpc]_vars

(***************************************************************************)
(* Gate agents (gate/gate.go) on the TCP acceptor, with the logic task     *)
(* that serves gate.AgentChanRPC.  The accept task counts a connection in  *)
(* wgConns, creates its agent, which posts NewAgent, and starts the        *)
(* per-connection task; that task is followed from the return of           *)
(* agent.Run through agent.OnClose to wgConns.Done().                      *)
(***************************************************************************)
\* Client.f("CloseAgent", n) on gate.AgentChanRPC
CloseAgentF(n) ==
    IF closeAgentShape = -1
      THEN <<"function not registered", "CloseAgent">>
      ELSE IF closeAgentShape # n
             THEN <<"return type mismatch", "CloseAgent">>
             ELSE NilErr

\* the shapes a function may be registered with: no return value (0) or
\* one return value (1)
Shapes == {0, 1}

\* the call descriptor for agent a; only CloseAgent's has a return channel
AgentCallInfo(op, a) == [op |-> op, a |-> a]

GateFrame == UNCHANGED <<modVars, goVars, connVars, srvVars, rpcVars, routeVars, timerVars, parserVars>>

\* logic module, OnInit: "NewAgent" and "CloseAgent" are registered on
\* AgentChanRPC, "CloseAgent" with one of the shapes, or are left out; the
\* modules run after every OnInit
LogicRegister ==
    /\ logicPc = "init"
    /\ \E n \in Shapes \cup {-1} : closeAgentShape' = n
    /\ \E r \in BOOLEAN : newAgentReg' = r
    /\ logicPc' = "idle"
    /\ UNCHANGED <<agentCall, agentRpcClosed, agentRet, onClosePc, onCloseErr,
                   logicCi, logicOp, handled, gateWg, gateCloserPc, accPc, accA,
                   agentSent, agentExec>>
    /\ GateFrame

\* the agent the accept task creates next
NextAgent(a) ==
    /\ onClosePc[a] = "none"
    /\ \A b \in Agents : b < a => onClosePc[b] # "none"

\* accept task: Accept returned a connection: server.wgConns.Add(1),
\* newTCPConn, and server.NewAgent(tcpConn) up to the send of Server.Go,
\* which returns at once when "NewAgent" is not registered
GateAccept(a) ==
    /\ accPc = "accept"
    /\ logicPc # "init"
    /\ NextAgent(a)
    /\ gateWg' = gateWg + 1
    /\ onClosePc' = [onClosePc EXCEPT ![a] = "new"]
    /\ accA' = a
    /\ accPc' = IF newAgentReg THEN "send" ELSE "spawn"
    /\ UNCHANGED <<closeAgentShape, newAgentReg, agentCall, agentRpcClosed, agentRet,
                   onCloseErr, logicPc, logicCi, logicOp, handled, gateCloserPc,
                   agentSent, agentExec>>
    /\ GateFrame

\* accept task, Server.Go: s.ChanCall <- &CallInfo{f, args}; the send waits
\* while the channel is full, and its panic on the closed channel is
\* recovered; NewAgent returns the agent
GateGoSend ==
    /\ accPc = "send"
    /\ IF agentRpcClosed
         THEN UNCHANGED <<agentCall, agentSent>>
         ELSE /\ Len(agentCall) < AgentCallLen
              /\ agentCall' = ChanSend(agentCall, AgentCallInfo("NewAgent", accA))
              /\ agentSent' = Append(agentSent, AgentCallInfo("NewAgent", accA))
    /\ accPc' = "spawn"
    /\ UNCHANGED <<closeAgentShape, newAgentReg, agentRpcClosed, agentRet, onClosePc,
                   onCloseErr, logicPc, logicCi, logicOp, handled, gateWg,
                   gateCloserPc, accA, agentExec>>
    /\ GateFrame

\* accept task: go func() { agent.Run() ... }() and back to Accept
GateSpawn ==
    /\ accPc = "spawn"
    /\ onClosePc' = [onClosePc EXCEPT ![accA] = "run"]
    /\ accA' = 0
    /\ accPc' = "accept"
    /\ UNCHANGED <<closeAgentShape, newAgentReg, agentCall, agentRpcClosed, agentRet,
                   onCloseErr, logicPc, logicCi, logicOp, handled, gateWg,
                   gateCloserPc, agentSent, agentExec>>
    /\ GateFrame

\* a per-connection task that is running before the accept task has
\* created the agent
AgentRunEndsUnspawned(a) ==
    /\ onClosePc[a] \in {"new", "run"}
    /\ onClosePc' = [onClosePc EXCEPT ![a] = "onclose"]
    /\ UNCHANGED <<closeAgentShape, newAgentReg, agentCall, agentRpcClosed, agentRet,
                   onCloseErr, logicPc, logicCi, logicOp, handled, gateWg,
                   gateCloserPc, accPc, accA, agentSent, agentExec>>
    /\ GateFrame

\* per-connection task: agent.Run has returned, the connection is closed
\* and deleted from the set; OnClose is called next
AgentRunEnds(a) ==
    /\ onClosePc[a] = "run"
    /\ onClosePc' = [onClosePc EXCEPT ![a] = "onclose"]
    /\ UNCHANGED <<closeAgentShape, newAgentReg, agentCall, agentRpcClosed, agentRet,
                   onCloseErr, logicPc, logicCi, logicOp, handled, gateWg,
                   gateCloserPc, accPc, accA, agentSent, agentExec>>
    /\ GateFrame

\* OnClose: AgentChanRPC.Open(0).Call0("CloseAgent", a) up to its send;
\* Call0 returns the error of Client.f at once
OnCloseCall0(a) ==
    /\ onClosePc[a] = "onclose"
    /\ IF CloseAgentF(0) # NilErr
         THEN /\ onCloseErr' = [onCloseErr EXCEPT ![a] = CloseAgentF(0)]
              /\ onClosePc' = [onClosePc EXCEPT ![a] = "return"]
         ELSE /\ onClosePc' = [onClosePc EXCEPT ![a] = "send"]
              /\ UNCHANGED onCloseErr
    /\ UNCHANGED <<closeAgentShape, newAgentReg, agentCall, agentRpcClosed, agentRet,
                   logicPc, logicCi, logicOp, handled, gateWg, gateCloserPc, accPc,
                   accA, agentSent, agentExec>>
    /\ GateFrame

\* Call0: c.call(ci, true): the send blocks while the call channel is
\* full; on the closed channel it panics, call recovers and Call0 returns
\* the error
OnCloseSend(a) ==
    /\ onClosePc[a] = "send"
    /\ IF agentRpcClosed
         THEN /\ onCloseErr' = [onCloseErr EXCEPT ![a] = <<"send on closed channel", "">>]
              /\ onClosePc' = [onClosePc EXCEPT ![a] = "return"]
              /\ UNCHANGED <<agentCall, agentSent>>
         ELSE /\ Len(agentCall) < AgentCallLen
              /\ agentCall' = ChanSend(agentCall, AgentCallInfo("CloseAgent", a))
              /\ agentSent' = Append(agentSent, AgentCallInfo("CloseAgent", a))
              /\ onClosePc' = [onClosePc EXCEPT ![a] = "wait"]
              /\ UNCHANGED onCloseErr
    /\ UNCHANGED <<closeAgentShape, newAgentReg, agentRpcClosed, agentRet, logicPc,
                   logicCi, logicOp, handled, gateWg, gateCloserPc, accPc, accA,
                   agentExec>>
    /\ GateFrame

\* a Call0 that does not wait for the return descriptor
OnCloseRecvNoWait(a) ==
    /\ onClosePc[a] = "wait"
    /\ onClosePc' = [onClosePc EXCEPT ![a] = "return"]
    /\ UNCHANGED <<closeAgentShape, newAgentReg, agentCall, agentRpcClosed, agentRet,
                   onCloseErr, logicPc, logicCi, logicOp, handled, gateWg,
                   gateCloserPc, accPc, accA, agentSent, agentExec>>
    /\ GateFrame

\* Call0: ri := <-c.chanSyncRet; return ri.err
OnCloseRecv(a) ==
    /\ onClosePc[a] = "wait"
    /\ agentRet[a] # <<>>
    /\ onCloseErr' = [onCloseErr EXCEPT ![a] = Head(agentRet[a])]
    /\ agentRet' = [agentRet EXCEPT ![a] = Tail(@)]
    /\ onClosePc' = [onClosePc EXCEPT ![a] = "return"]
    /\ UNCHANGED <<closeAgentShape, newAgentReg, agentCall, agentRpcClosed, logicPc,
                   logicCi, logicOp, handled, gateWg, gateCloserPc, accPc, accA,
                   agentSent, agentExec>>
    /\ GateFrame

\* OnClose logs the error, if any, and returns; the per-connection task
\* does server.wgConns.Done() and ends
OnCloseReturn(a) ==
    /\ onClosePc[a] = "return"
    /\ onClosePc' = [onClosePc EXCEPT ![a] = "done"]
    /\ gateWg' = gateWg - 1
    /\ UNCHANGED <<closeAgentShape, newAgentReg, agentCall, agentRpcClosed, agentRet,
                   onCloseErr, logicPc, logicCi, logicOp, handled, gateCloserPc,
                   accPc, accA, agentSent, agentExec>>
    /\ GateFrame

\* logic task: Exec(<-AgentChanRPC.ChanCall), the handler begins
LogicExec ==
    /\ logicPc = "idle"
    /\ agentCall # <<>>
    /\ logicCi' = Head(agentCall).a
    /\ logicOp' = Head(agentCall).op
    /\ agentExec' = Append(agentExec, Head(agentCall))
    /\ agentCall' = Tail(agentCall)
    /\ logicPc' = "exec"
    /\ UNCHANGED <<closeAgentShape, newAgentReg, agentRpcClosed, agentRet, onClosePc,
                   onCloseErr, handled, gateWg, gateCloserPc, accPc, accA, agentSent>>
    /\ GateFrame

\* logic task: the handler returns or panics with r, and Exec, or its
\* deferred function, calls s.ret: nothing is sent for NewAgent's
\* descriptor, which has no return channel; CloseAgent's return descriptor
\* is sent (the channel of capacity 1 is empty, its only call is this one)
LogicExecRet ==
    /\ logicPc = "exec"
    /\ IF logicOp = "CloseAgent"
         THEN /\ handled' = handled \cup {logicCi}
              /\ \E r \in PanicValues \cup {"none"} :
                   agentRet' = [agentRet EXCEPT ![logicCi] =
                                   Append(@, IF r = "none" THEN NilErr ELSE <<r, "">>)]
         ELSE UNCHANGED <<handled, agentRet>>
    /\ logicCi' = 0
    /\ logicOp' = "none"
    /\ logicPc' = "idle"
    /\ UNCHANGED <<closeAgentShape, newAgentReg, agentCall, agentRpcClosed, onClosePc,
                   onCloseErr, gateWg, gateCloserPc, accPc, accA, agentSent, agentExec>>
    /\ GateFrame

\* logic task: AgentChanRPC.Close(), close(s.ChanCall)
LogicClose ==
    /\ logicPc = "idle"
    /\ agentRpcClosed' = TRUE
    /\ logicPc' = "drain"
    /\ UNCHANGED <<closeAgentShape, newAgentReg, agentCall, agentRet, onClosePc,
                   onCloseErr, logicCi, logicOp, handled, gateWg, gateCloserPc,
                   accPc, accA, agentSent, agentExec>>
    /\ GateFrame

\* logic task, Server.Close: each queued descriptor with a return channel
\* is answered with chanrpc server closed, its function is not called
LogicDrain ==
    /\ logicPc = "drain"
    /\ IF agentCall = <<>>
         THEN /\ logicPc' = "closed"
              /\ UNCHANGED <<agentCall, agentRet>>
         ELSE /\ agentCall' = Tail(agentCall)
              /\ agentRet' = IF Head(agentCall).op = "CloseAgent"
                               THEN [agentRet EXCEPT ![Head(agentCall).a] =
                                        Append(@, <<"chanrpc server closed", "">>)]
                               ELSE agentRet
              /\ UNCHANGED logicPc
    /\ UNCHANGED <<closeAgentShape, newAgentReg, agentRpcClosed, onClosePc, onCloseErr,
                   logicCi, logicOp, handled, gateWg, gateCloserPc, accPc, accA,
                   agentSent, agentExec>>
    /\ GateFrame

\* TCPServer.Close: server.ln.Close() and server.wgLn.Wait() have ended
\* the accept task, which was in Accept; server.wgConns.Wait() is next
GateClose ==
    /\ gateCloserPc = "idle"
    /\ accPc = "accept"
    /\ accPc' = "stopped"
    /\ gateCloserPc' = "wait"
    /\ UNCHANGED <<closeAgentShape, newAgentReg, agentCall, agentRpcClosed, agentRet,
                   onClosePc, onCloseErr, logicPc, logicCi, logicOp, handled, gateWg,
                   accA, agentSent, agentExec>>
    /\ GateFrame

\* server.wgConns.Wait() returns when the counter is zero
GateCloseReturn ==
    /\ gateCloserPc = "wait"
    /\ gateWg = 0
    /\ gateCloserPc' = "returned"
    /\ UNCHANGED <<closeAgentShape, newAgentReg, agentCall, agentRpcClosed, agentRet,
                   onClosePc, onCloseErr, logicPc, logicCi, logicOp, handled, gateWg,
                   accPc, accA, agentSent, agentExec>>
    /\ GateFrame

NextGate ==
    \/ LogicRegister
    \/ \E a \in Agents : GateAccept(a)
    \/ GateGoSend
    \/ GateSpawn
    \/ \E a \in Agents : AgentRunEnds(a)
    \/ \E a \in Agents : OnCloseCall0(a)
    \/ \E a \in Agents : OnCloseSend(a)
    \/ \E a \in Agents : OnCloseRecv(a)
    \/ \E a \in Agents : OnCloseReturn(a)
    \/ LogicExec
    \/ LogicExecRet
    \/ LogicClose
    \/ LogicDrain
    \/ GateClose
    \/ GateCloseReturn

SpecGate == Init /\ [][NextGate]_vars

(***************************************************************************)
(* Message routing (Processor.Route of the protobuf and of the json        *)
(* processor, called by the read loop of agent.Run).  One read task routes *)
(* message after message; the router is a chanrpc server whose call        *)
(* channel a logic task empties.                                           *)
(***************************************************************************)
\* Processor.msgInfo after Register, SetHandler and SetRouter: for each
\* registered message type whether a handler and whether a router is set
msgInfo == [Hello |-> [msgHandler |-> TRUE,  msgRouter |-> TRUE],
            Chat  |-> [msgHandler |-> TRUE,  msgRouter |-> TRUE],
            Ping  |-> [msgHandler |-> TRUE,  msgRouter |-> FALSE],
            Move  |-> [msgHandler |-> FALSE, msgRouter |-> TRUE],
            Noop  |-> [msgHandler |-> FALSE, msgRouter |-> FALSE]]

\* the message types the read task may hand to Route: the registered ones,
\* one of a type that is not registered, and a value that is no pointer
RouteMsgs == DOMAIN msgInfo \cup {"Bogus", "value"}

\* the message types for which the router has a function registered
routerFunctions == {"Hello", "Move"}

\* the two processors
Processors == {"protobuf", "json"}

\* the user data agent.Run passes: the agent
UserData == "agent"

\* Route's lookup: the error it returns before anything is invoked
RouteLookup(p, m) ==
    IF p = "json" /\ m = "value"
      THEN <<"json message pointer required", "">>
      ELSE IF m \notin DOMAIN msgInfo
             THEN <<"message not registered", m>>
             ELSE NilErr

\* a Route that posts to the router before it looks at the handler
AfterLookupRouterFirst(m) ==
    IF msgInfo[m].msgRouter THEN "go"
    ELSE IF msgInfo[m].msgHandler THEN "handler" ELSE "idle"

\* where Route goes after a successful lookup
AfterLookup(m) ==
    IF msgInfo[m].msgHandler THEN "handler"
    ELSE IF msgInfo[m].msgRouter THEN "go" ELSE "idle"

RouteFrame ==
    UNCHANGED <<modVars, goVars, connVars, srvVars, rpcVars, gateVars, timerVars, parserVars>>

\* read task: Processor.Route(msg, a) is called; an error of the lookup is
\* returned and ends the read loop, otherwise the handler or the router is
\* next, or Route returns nil
RouteCall(p, m) ==
    /\ routePc = "idle"
    /\ routeK < MaxRoutes
    /\ routeK' = routeK + 1
    /\ IF RouteLookup(p, m) # NilErr
         THEN /\ routePc' = "ended"
              /\ routeRet' = RouteLookup(p, m)
              /\ routeMsg' = "none"
         ELSE /\ routePc' = AfterLookup(m)
              /\ routeRet' = IF AfterLookup(m) = "idle" THEN NilErr ELSE <<"none", "">>
              /\ routeMsg' = IF AfterLookup(m) = "idle" THEN "none" ELSE m
    /\ routeLog' = Append(routeLog, <<routeK + 1, "Route", m>>)
    /\ UNCHANGED <<routerCall, routerClosed>>
    /\ RouteFrame

\* read task: i.msgHandler([]interface{}{msg, userData}) is invoked
RouteHandler ==
    /\ routePc = "handler"
    /\ routeLog' = Append(routeLog, <<routeK, "handler", <<routeMsg, UserData>>>>)
    /\ routePc' = "inHandler"
    /\ UNCHANGED <<routeK, routeMsg, routeRet, routerCall, routerClosed>>
    /\ RouteFrame

\* read task: the handler returns, or it panics and the panic leaves Route
\* and ends the task
RouteHandlerEnds ==
    /\ routePc = "inHandler"
    /\ \E panics \in BOOLEAN :
         IF panics
           THEN /\ routePc' = "panicked"
                /\ routeLog' = Append(routeLog, <<routeK, "panic", routeMsg>>)
                /\ routeMsg' = "none"
                /\ UNCHANGED routeRet
           ELSE /\ routeLog' = Append(routeLog, <<routeK, "returned", routeMsg>>)
                /\ IF msgInfo[routeMsg].msgRouter
                     THEN /\ routePc' = "go"
                          /\ UNCHANGED <<routeMsg, routeRet>>
                     ELSE /\ routePc' = "idle"
                          /\ routeMsg' = "none"
                          /\ routeRet' = NilErr
    /\ UNCHANGED <<routeK, routerCall, routerClosed>>
    /\ RouteFrame

\* read task: i.msgRouter.Go(msgType, msg, userData): Server.Go returns at
\* once when the router has no function for the type, its send waits while
\* the call channel is full and its panic on the closed channel is
\* recovered; then Route returns nil
RouteGo ==
    /\ routePc = "go"
    /\ IF routeMsg \in routerFunctions /\ ~routerClosed
         THEN /\ Len(routerCall) < RouterCallLen
              /\ routerCall' = ChanSend(routerCall, <<routeMsg, <<routeMsg, UserData>>>>)
         ELSE UNCHANGED routerCall
    /\ routeLog' = Append(routeLog, <<routeK, "Go", routeMsg>>)
    /\ routePc' = "idle"
    /\ routeMsg' = "none"
    /\ routeRet' = NilErr
    /\ UNCHANGED <<routeK, routerClosed>>
    /\ RouteFrame

\* logic task: Exec(<-router.ChanCall)
RouterExec ==
    /\ routerCall # <<>>
    /\ routerCall' = Tail(routerCall)
    /\ UNCHANGED <<routePc, routeMsg, routeK, routeRet, routeLog, routerClosed>>
    /\ RouteFrame

\* logic task: router.Close(), which also empties the call channel
RouterClose ==
    /\ ~routerClosed
    /\ routerClosed' = TRUE
    /\ routerCall' = <<>>
    /\ UNCHANGED <<routePc, routeMsg, routeK, routeRet, routeLog>>
    /\ RouteFrame

NextRoute ==
    \/ \E p \in Processors, m \in RouteMsgs : RouteCall(p, m)
    \/ RouteHandler
    \/ RouteHandlerEnds
    \/ RouteGo
    \/ RouterExec
    \/ RouterClose

SpecRoute == Init /\ [][NextRoute]_vars

(***************************************************************************)
(* Timers and cron jobs (package timer).  One owning task registers        *)
(* timers, stops them and calls Cb on the timers it receives from          *)
(* ChanTimer; each time.AfterFunc runs its function, the send on           *)
(* ChanTimer, on a task of its own when the duration has passed.           *)
(***************************************************************************)
TimerFrame ==
    UNCHANGED <<modVars, goVars, connVars, srvVars, rpcVars, gateVars, routeVars,
                parserVars>>

\* disp.AfterFunc(d, cb) for the next timer: t.cb = cb and the underlying
\* timer is armed
AfterFunc(cb) ==
    /\ tmUnder' = [tmUnder EXCEPT ![nextTimer] = "armed"]
    /\ tmCb' = [tmCb EXCEPT ![nextTimer] = cb]
    /\ nextTimer' = nextTimer + 1

\* Timer.Stop that stops the underlying timer only
StopKeepsCb(cbs, t) == cbs

\* Timer.Stop, t.cb = nil
StopCb(cbs, t) == [cbs EXCEPT ![t] = "nil"]

\* Timer.Stop, t.t.Stop(): an armed timer will not fire, one that has
\* fired is not changed
StopUnder(under, t) ==
    [under EXCEPT ![t] = IF @ = "armed" THEN "stopped" ELSE @]

\* owning task: d.AfterFunc(d, cb) with a user callback
TimerAfterFunc ==
    /\ timerPc = "idle"
    /\ nextTimer <= NumTimers
    /\ AfterFunc("user")
    /\ UNCHANGED <<ChanTimer, tmStopped, stopFound, tmInvoked, tmCbCalls, timerPc,
                   timerCur, cronT, cronState, cronStopped, cronRuns, cronTimers>>
    /\ TimerFrame

\* the duration of timer t has passed: the function of time.AfterFunc
\* starts on its own task
TimerFire(t) ==
    /\ tmUnder[t] = "armed"
    /\ tmUnder' = [tmUnder EXCEPT ![t] = "firing"]
    /\ UNCHANGED <<tmCb, nextTimer, ChanTimer, tmStopped, stopFound, tmInvoked,
                   tmCbCalls, timerPc, timerCur, cronT, cronState, cronStopped, cronRuns, cronTimers>>
    /\ TimerFrame

\* the function of time.AfterFunc: disp.ChanTimer <- t, which waits while
\* the channel is full
TimerSend(t) ==
    /\ tmUnder[t] = "firing"
    /\ Len(ChanTimer) < ChanTimerLen
    /\ ChanTimer' = ChanSend(ChanTimer, t)
    /\ tmUnder' = [tmUnder EXCEPT ![t] = "done"]
    /\ UNCHANGED <<tmCb, nextTimer, tmStopped, stopFound, tmInvoked, tmCbCalls,
                   timerPc, timerCur, cronT, cronState, cronStopped, cronRuns, cronTimers>>
    /\ TimerFrame

\* owning task: t.Stop() on a timer it registered with AfterFunc
TimerStop(t) ==
    /\ timerPc = "idle"
    /\ t < nextTimer
    /\ t \notin cronTimers
    /\ tmUnder' = StopUnder(tmUnder, t)
    /\ tmCb' = StopCb(tmCb, t)
    /\ tmStopped' = [tmStopped EXCEPT ![t] = TRUE]
    /\ stopFound' = [stopFound EXCEPT ![t] = IF tmStopped[t] THEN @ ELSE tmUnder[t]]
    /\ UNCHANGED <<nextTimer, ChanTimer, tmInvoked, tmCbCalls, timerPc, timerCur,
                   cronT, cronState, cronStopped, cronRuns, cronTimers>>
    /\ TimerFrame

\* Timer.Cb on timer t: with t.cb nil nothing is invoked; a user callback
\* is invoked, returns or panics, and the deferred function sets t.cb to
\* nil and recovers; the callback of a cron job looks for the next time
\* and registers the next timer, storing it in the cron, before its
\* deferred user callback runs
CbBody(t) ==
    /\ tmCbCalls' = [tmCbCalls EXCEPT ![t] = @ + 1]
    /\ IF tmCb[t] = "nil"
         THEN UNCHANGED <<tmUnder, tmCb, nextTimer, tmInvoked, timerPc, timerCur,
                          cronT, cronTimers>>
         ELSE /\ tmInvoked' = [tmInvoked EXCEPT ![t] = @ + 1]
              /\ IF tmCb[t] = "user"
                   THEN /\ tmCb' = [tmCb EXCEPT ![t] = "nil"]
                        /\ UNCHANGED <<tmUnder, nextTimer, timerPc, timerCur, cronT,
                                       cronTimers>>
                   ELSE /\ timerPc' = "cronUser"
                        /\ timerCur' = t
                        /\ \E zero \in BOOLEAN :
                             IF zero \/ nextTimer > NumTimers
                               THEN UNCHANGED <<tmUnder, tmCb, nextTimer, cronT,
                                                cronTimers>>
                               ELSE /\ AfterFunc("cron")
                                    /\ cronT' = nextTimer
                                    /\ cronTimers' = cronTimers \cup {nextTimer}

\* owning task: (<-d.ChanTimer).Cb()
TimerDispatch ==
    /\ timerPc = "idle"
    /\ ChanTimer # <<>>
    /\ ChanTimer' = Tail(ChanTimer)
    /\ CbBody(Head(ChanTimer))
    /\ UNCHANGED <<tmStopped, stopFound, cronState, cronStopped, cronRuns>>
    /\ TimerFrame

\* owning task: t.Cb() on a timer it holds, whether it has expired or not
TimerCb(t) ==
    /\ timerPc = "idle"
    /\ t < nextTimer
    /\ t \notin cronTimers
    /\ tmCbCalls[t] < MaxCbCalls
    /\ CbBody(t)
    /\ UNCHANGED <<ChanTimer, tmStopped, stopFound, cronState, cronStopped, cronRuns>>
    /\ TimerFrame

\* owning task: d.CronFunc(expr, _cb): an error for an expression that
\* does not parse or has no next time, else the first timer is registered
\* and stored in the cron
TimerCronFunc ==
    /\ timerPc = "idle"
    /\ cronState = "none"
    /\ nextTimer <= NumTimers
    /\ \E res \in {"ok", "bad expression", "next time not found"} :
         IF res = "ok"
           THEN /\ AfterFunc("cron")
                /\ cronT' = nextTimer
                /\ cronTimers' = cronTimers \cup {nextTimer}
                /\ cronState' = "active"
           ELSE /\ cronState' = "failed"
                /\ UNCHANGED <<tmUnder, tmCb, nextTimer, cronT, cronTimers>>
    /\ UNCHANGED <<ChanTimer, tmStopped, stopFound, tmInvoked, tmCbCalls, timerPc,
                   timerCur, cronStopped, cronRuns>>
    /\ TimerFrame

\* a c.Stop() inside the user callback that would find in the cron the
\* timer whose callback is running
CronStopTargetCurrent == IF timerPc = "cronUser" THEN timerCur ELSE cronT

\* the timer c.Stop() stops: cron.t
CronStopTarget == cronT

\* Cron.Stop: c.t.Stop(), called inside the user callback or outside
CronStopBody(place) ==
    /\ tmUnder' = StopUnder(tmUnder, CronStopTarget)
    /\ tmStopped' = [tmStopped EXCEPT ![CronStopTarget] = TRUE]
    /\ stopFound' = [stopFound EXCEPT ![CronStopTarget] =
                        IF tmStopped[CronStopTarget] THEN @ ELSE tmUnder[CronStopTarget]]
    /\ cronStopped' = IF cronStopped = "no" THEN place ELSE cronStopped

\* owning task, inside Timer.Cb of a cron timer: the deferred user callback
\* runs, calling c.Stop() or not, and returns or panics; then the deferred
\* function of Timer.Cb sets the cb of the timer that expired to nil
TimerCronUser ==
    /\ timerPc = "cronUser"
    /\ cronRuns' = cronRuns + 1
    /\ \E stop \in BOOLEAN :
         IF stop
           THEN /\ CronStopBody("inside")
                /\ tmCb' = [StopCb(tmCb, CronStopTarget) EXCEPT ![timerCur] = "nil"]
           ELSE /\ tmCb' = [tmCb EXCEPT ![timerCur] = "nil"]
                /\ UNCHANGED <<tmUnder, tmStopped, stopFound, cronStopped>>
    /\ timerPc' = "idle"
    /\ timerCur' = 0
    /\ UNCHANGED <<nextTimer, ChanTimer, tmInvoked, tmCbCalls, cronT, cronState,
                   cronTimers>>
    /\ TimerFrame

\* owning task: c.Stop() between two callbacks
TimerCronStop ==
    /\ timerPc = "idle"
    /\ cronState = "active"
    /\ CronStopBody("outside")
    /\ tmCb' = StopCb(tmCb, CronStopTarget)
    /\ UNCHANGED <<nextTimer, ChanTimer, tmInvoked, tmCbCalls, timerPc, timerCur,
                   cronT, cronState, cronRuns, cronTimers>>
    /\ TimerFrame

NextTimerStep ==
    \/ TimerAfterFunc
    \/ \E t \in Timers : TimerFire(t)
    \/ \E t \in Timers : TimerSend(t)
    \/ \E t \in Timers : TimerStop(t)
    \/ TimerDispatch
    \/ \E t \in Timers : TimerCb(t)
    \/ TimerCronFunc
    \/ TimerCronUser
    \/ TimerCronStop

SpecTimer == Init /\ [][NextTimerStep]_vars

(***************************************************************************)
(* Claims about the module lifecycle.                                      *)
(***************************************************************************)
\* the module whose OnDestroy is in progress
InOnDestroy(m) == mainPc = "indestroy" /\ DestroyMod = m

\* C1: whenever a module's OnDestroy has begun, that module's Run task has
\* already exited (run has executed m.wg.Done()).  The code breaks this:
\* wg.Add(1) is executed by the spawned task, so Destroy's wg.Wait() can see
\* a zero counter before the task has been scheduled.
C1_RunExitedBeforeOnDestroy ==
    \A m \in Mods : InOnDestroy(m) => runPc[m] = "exited"

\* the events of one kind in the log of the task running Init / Destroy
EventsOf(kind) == SelectSeq(modLog, LAMBDA e : e[1] = kind)

\* C2: OnDestroy is called in reverse registration order (NumMods, ..., 1),
\* and the close signal of module m is sent only after the OnDestroy of
\* module m + 1 has finished.
C2_ReverseDestroyOrder ==
    /\ \A k \in 1..Len(EventsOf("ondestroy")) :
         EventsOf("ondestroy")[k][2] = NumMods + 1 - k
    /\ \A j \in 1..Len(modLog) :
         (modLog[j][1] = "signal" /\ modLog[j][2] < NumMods)
           => \E i \in 1..(j - 1) :
                /\ modLog[i][1] \in {"destroyed", "panic"}
                /\ modLog[i][2] = modLog[j][2] + 1

\* C2 witness: Destroy has returned after destroying every module
C2_Witness ==
    /\ mainPc = "done"
    /\ Len(EventsOf("ondestroy")) = NumMods
    /\ NumMods >= 2

(***************************************************************************)
(* Claims about the linear context.                                        *)
(***************************************************************************)
\* the spawned tasks whose f is executing
Executing == {k \in Subs : goPc[k] = "running"}

\* C3: at most one f of the context is executing at any time
C3_NoOverlap == Cardinality(Executing) <= 1

\* C3 witness: one f is executing while another spawned task, whose
\* submission is still in the list, waits for the execution lock
C3_Witness ==
    \E k, j \in Subs : goPc[k] = "running" /\ goPc[j] = "start" /\ linearGo # <<>>

\* C4: the functions start in submission order: the i-th function to start
\* is that of the i-th submission
C4_ExecutionInSubmissionOrder ==
    \A i \in 1..Len(execLog) : execLog[i] = i

\* C4 witness: every submission has been executed, and some task ran a
\* submission other than the one that spawned it
C4_Witness ==
    /\ Len(execLog) = MaxSubs
    /\ \E k \in Subs : goE[k] # 0 /\ goE[k] # k

\* C5: the callbacks are sent on ChanCb in submission order, and a task
\* that has taken an element holds the execution lock until its callback
\* has been sent
C5_CallbacksInSubmissionOrder ==
    /\ \A i \in 1..Len(postLog) : postLog[i] = i
    /\ \A k \in Subs :
         goPc[k] \in {"popped", "running", "finished", "posted"} => mutexExecution = k

\* C5 witness: all callbacks have been sent, by tasks that did not take the
\* lock in spawn order
C5_Witness ==
    /\ Len(postLog) = MaxSubs
    /\ MaxSubs >= 2
    /\ \E k \in Subs : goE[k] # 0 /\ goE[k] # k

(***************************************************************************)
(* Claims about the connection.                                            *)
(***************************************************************************)
\* what the callers' methods act on: the queue, the flags, the socket
ConnState == <<writeChan, chanClosed, closeFlag, sockClosed, sockLog, enqLog,
               fullCount, destroyCount, chanPanic>>

\* caller t takes the step that decides its Write / Close / Destroy call
Decides(t, call) == callPc[t] = call /\ callPc'[t] # call

\* C6: once closeFlag is set nothing is sent on the send queue any more: a
\* Write that finds the flag set returns with the queue and the rest of the
\* connection unchanged, and no caller is left about to send
C6_NoEnqueueOnceClosed ==
    /\ [][closeFlag => enqLog' = enqLog]_vars
    /\ [][\A t \in Callers :
            (closeFlag /\ Decides(t, "Write"))
              => (callPc'[t] = "idle" /\ ConnState' = ConnState)]_vars
    /\ [](closeFlag => \A t \in Callers : callPc[t] \notin {"WriteSend", "CloseSend"})

\* C6 witness: a Write of a non-nil buffer has returned from a closed
\* connection that had accepted buffers before
C6_Witness ==
    /\ lastRet = <<"Write", "closed">>
    /\ closeFlag
    /\ enqLog # <<>>

\* C7: a Write of a non-nil buffer that finds the connection open and the
\* queue full returns at once without enqueuing, having closed the socket
\* and the queue and set closeFlag; "channel full" happens at most once, and
\* after it every Write leaves the connection unchanged
C7_FullQueueDestroysOnce ==
    /\ [][\A t \in Callers :
            (/\ Decides(t, "Write")
             /\ ~closeFlag
             /\ callArg[t] # 0
             /\ Len(writeChan) = PendingWriteNum)
              => (/\ callPc'[t] = "idle"
                  /\ mutex' = 0
                  /\ sockClosed' /\ chanClosed' /\ closeFlag'
                  /\ fullCount' = fullCount + 1
                  /\ writeChan' = writeChan
                  /\ enqLog' = enqLog)]_vars
    /\ [][\A t \in Callers :
            (fullCount >= 1 /\ Decides(t, "Write"))
              => (callPc'[t] = "idle" /\ ConnState' = ConnState)]_vars
    /\ [](fullCount <= 1)

\* C7 witness: after the channel-full transition on a Write, a later Write
\* has returned from the closed connection
C7_Witness ==
    /\ fullCount = 1
    /\ lastRet = <<"Write", "closed">>
    /\ Len(enqLog) = PendingWriteNum
    /\ 0 \notin {enqLog[i] : i \in 1..Len(enqLog)}

\* the position of the nil sentinel in the history of the queue, 0 if none
SentinelAt ==
    IF \E i \in 1..Len(enqLog) : enqLog[i] = 0
      THEN CHOOSE i \in 1..Len(enqLog) :
             enqLog[i] = 0 /\ \A j \in 1..(i - 1) : enqLog[j] # 0
      ELSE 0

\* the buffers enqueued before the sentinel
BeforeSentinel == SubSeq(enqLog, 1, SentinelAt - 1)

\* s is a prefix of q
IsPrefix(s, q) == Len(s) <= Len(q) /\ SubSeq(q, 1, Len(s)) = s

\* C8: after a graceful Close (the sentinel was enqueued) and without a
\* socket write error, the socket receives the buffers enqueued before the
\* Close in their order, and it is closed only once all of them are written
C8_GracefulCloseDrains ==
    (SentinelAt > 0 /\ ~writeErr) =>
        /\ IsPrefix(sockLog, BeforeSentinel)
        /\ sockClosed => sockLog = BeforeSentinel

\* C8 witness: the socket was closed after a graceful Close that found two
\* buffers waiting in the queue, and no write failed
C8_Witness ==
    /\ SentinelAt > 2
    /\ ~writeErr
    /\ sockClosed
    /\ Len(sockLog) >= 2

\* the number of nil sentinels ever enqueued
Sentinels == Cardinality({i \in 1..Len(enqLog) : enqLog[i] = 0})

\* C9: every Close or Destroy leaves closeFlag set, and a Close or Destroy
\* that finds it set changes nothing: in all, at most one sentinel is
\* enqueued or one doDestroy executed, and the queue is never closed twice
C9_CloseDestroyIdempotent ==
    /\ [][\A t \in Callers :
            (callPc[t] \in {"Close", "CloseSend", "Destroy"} /\ callPc'[t] = "idle")
              => closeFlag']_vars
    /\ [][\A t \in Callers :
            (closeFlag /\ (Decides(t, "Close") \/ Decides(t, "Destroy")))
              => (callPc'[t] = "idle" /\ ConnState' = ConnState)]_vars
    /\ [](Sentinels + destroyCount <= 1)
    /\ [](~chanPanic)

\* C9 witness: a Close or a Destroy has returned from a connection that an
\* earlier Close or Destroy had closed
C9_Witness ==
    /\ lastRet \in {<<"Close", "closed">>, <<"Destroy", "closed">>}
    /\ Sentinels + destroyCount = 1
    /\ fullCount = 0
    /\ writerPc \in {"recv", "write"}

\* a Close or a Destroy has been called, or a socket write has failed
ShutdownRequested ==
    \/ \E t \in Callers : callPc[t] \in {"Close", "CloseSend", "Destroy"}
    \/ writeErr

\* the writer task has closed the socket, set closeFlag and exited
WriterExited == writerPc = "exit" /\ sockClosed /\ closeFlag

\* C10: under fair scheduling, once Close or Destroy has been called or a
\* socket write has failed, the writer task eventually closes the socket,
\* sets closeFlag and exits
C10_WriterTerminates == ShutdownRequested ~> WriterExited

\* C10 witness: the writer has exited after a Close found the queue
\* non-empty, without any write error
C10_Witness ==
    /\ WriterExited
    /\ ~writeErr
    /\ SentinelAt > 1

(***************************************************************************)
(* C11: whatever the callers of Write do, the only task that is ever       *)
(* inside conn.Write on the socket is the connection's writer task, so at  *)
(* most one socket write is in progress in any state, and the socket log   *)
(* grows only by the buffer the writer task is writing.                    *)
(***************************************************************************)
C11_SingleSocketWriter ==
    /\ sockWriting \subseteq {WriterTask}
    /\ Cardinality(sockWriting) <= 1
    /\ (writerPc = "write") = (WriterTask \in sockWriting)

\* the writer is inside conn.Write while a caller is inside Write with a
\* buffer to send and another buffer is still queued
C11_Witness ==
    /\ sockWriting = {WriterTask}
    /\ \E t \in Callers : callPc[t] = "WriteSend" /\ callArg[t] # 0
    /\ writeChan # <<>>

(***************************************************************************)
(* Claims about the TCP acceptor.                                          *)
(***************************************************************************)
\* the accept task has just closed a socket because the set was full
RejectStep == rejected' # rejected

\* C12: the live-connection set never has more than MaxConnNum members; a
\* socket accepted while the set is full is closed in the same step, no
\* connection wrapper and no agent is ever created for it, and the step
\* leaves the set, the agents and their sockets as they were.
C12_ConnectionCap ==
    /\ [](/\ Cardinality(conns) <= MaxConnNum
          /\ \A c \in rejected :
                c \in rawClosed /\ c \notin conns /\ agentPc[c] = "none")
    /\ [][RejectStep =>
            /\ Cardinality(conns) = MaxConnNum
            /\ rejected' = rejected \cup {acceptConn}
            /\ rawClosed' = rawClosed \cup {acceptConn}
            /\ conns' = conns
            /\ agentPc' = agentPc
            /\ wgConns' = wgConns]_vars

\* a socket was rejected while MaxConnNum agents are still in their Run
C12_Witness ==
    /\ rejected # {}
    /\ Cardinality(conns) = MaxConnNum
    /\ \A c \in conns : agentPc[c] = "run" /\ c \notin rawClosed

\* C13: when TCPServer.Close has returned, the accept task has exited, the
\* set is empty and every agent task that was started has finished.  The
\* code breaks the first part: wgLn.Add(1) is executed by the accept task
\* itself, so Close's wgLn.Wait() can see a zero counter before that task
\* has been scheduled.
C13_CloseLeavesNothingRunning ==
    closerPc = "returned" =>
        /\ acceptPc = "exited"
        /\ conns = {}
        /\ \A c \in Socks : agentPc[c] \in {"none", "end"}

\* the teardown an agent task performs after Run, in order
Teardown == <<"Close", "delete", "OnClose">>

\* an error has just ended the Run of agent c
RunFailed(c) == runErr' # runErr /\ runErr'[1] = c

\* C14: when ReadMsg, Unmarshal or Route returns an error the agent leaves
\* Run; its task then requests Close on the connection, deletes the socket
\* from the set and calls OnClose, each once and in that order, the socket
\* is out of the set from the delete on, and under fair scheduling the set
\* eventually no longer contains the socket.
C14_TeardownAfterRunError ==
    /\ [][\A c \in Socks : RunFailed(c) =>
            /\ runErr'[2] \in RunErrors
            /\ agentPc[c] = "run" /\ agentPc'[c] = "close"
            /\ agentLog'[c] = <<>>]_vars
    /\ [](\A c \in Socks :
            /\ IsPrefix(agentLog[c], Teardown)
            /\ agentLog[c] # <<>> => agentPc[c] \notin {"none", "run", "close"}
            /\ Len(agentLog[c]) >= 2 => c \notin conns
            /\ agentPc[c] \in {"done", "end"} => agentLog[c] = Teardown)
    /\ \A c \in Socks : (agentPc[c] = "close") ~> (c \notin conns)

\* an agent whose Run ended with a Route error on an open socket has been
\* torn down completely while the server was not closing
C14_Witness ==
    \E c \in Socks :
        /\ runErr = <<c, "Route">>
        /\ c \notin rawClosed
        /\ agentLog[c] = Teardown
        /\ closerPc = "run"

(***************************************************************************)
(* Claims about the channel RPC.                                           *)
(***************************************************************************)
\* the client call that has just returned
CallReturns == lastCall' # lastCall

\* the errors of Client.f
LookupErrors == {"function not registered", "return type mismatch"}

\* descriptor k is on the call channel
Queued(k) == \E i \in 1..Len(ChanCall) : ChanCall[i].ser = k

\* C15: a call whose expected shape (Call0 / Call1 / CallN, or the type of
\* AsynCall's callback) differs from the shape of the registered function
\* yields "return type mismatch", a call of an id that is not registered
\* yields "function not registered"; in both cases no descriptor is put on
\* the call channel and no function is invoked for the call.
C15_ShapeMismatchRejected ==
    /\ [](lastCall.op # "none" =>
            /\ lastCall.id \notin DOMAIN functions =>
                  lastCall.err = <<"function not registered", lastCall.id>>
            /\ (lastCall.id \in DOMAIN functions /\ functions[lastCall.id] # lastCall.n) =>
                  lastCall.err = <<"return type mismatch", lastCall.id>>
            /\ lastCall.err[1] \in LookupErrors =>
                  /\ ~Queued(lastCall.ser)
                  /\ dequeued[lastCall.ser] = 0
                  /\ invoked[lastCall.ser] = 0
                  /\ delivered[lastCall.ser] = 0)
    /\ [][(CallReturns /\ lastCall'.err[1] \in LookupErrors) =>
            /\ ChanCall' = ChanCall
            /\ invoked' = invoked
            /\ pendingAsynCall' = pendingAsynCall]_vars

\* Call0 of the slice-shaped function has returned the mismatch while a
\* descriptor of an earlier call is queued
C15_Witness ==
    /\ lastCall.op = "Call" /\ lastCall.id = "fn" /\ lastCall.n = 0
    /\ lastCall.err = <<"return type mismatch", "fn">>
    /\ ChanCall # <<>>

\* C16: pendingAsynCall is the number of AsynCalls that enqueued their
\* descriptor minus the number of Cb invocations, and is never negative.
\* The code breaks the equation: for a callback func([]interface{}, error)
\* Cb evaluates ri.ret.([]interface{}) on the nil ri.ret of an error
\* descriptor and panics before the callback and before the decrement.
C16_PendingCounter ==
    /\ pendingAsynCall = asynOk - cbCalls
    /\ pendingAsynCall >= 0

\* C17: Client.Close returns at once, receiving nothing, when the counter
\* is 0; otherwise it stays in its loop while the counter is positive, has
\* received as many descriptors (each handed to Cb) as the counter has
\* dropped, and when it has returned it has received exactly the k
\* descriptors that were pending and the counter is 0.
C17_CloseDrainsPending ==
    /\ [](/\ cliPc = "closed" => pendingAsynCall = 0 /\ closeRecv = closeK
          /\ cliPc = "closing" =>
                /\ pendingAsynCall > 0
                /\ closeRecv < closeK
                /\ pendingAsynCall = closeK - closeRecv)
    /\ [][(cliPc = "idle" /\ cliPc' = "closed") =>
            /\ pendingAsynCall = 0
            /\ ChanAsynRet' = ChanAsynRet
            /\ cbCalls' = cbCalls]_vars
    /\ [][closeRecv' = closeRecv + 1 =>
            /\ cbCalls' = cbCalls + 1
            /\ ChanAsynRet = <<Head(ChanAsynRet)>> \o ChanAsynRet']_vars

\* Close has returned after receiving more than one descriptor
C17_Witness ==
    /\ cliPc = "closed"
    /\ closeK > 1
    /\ closeRecv = closeK

\* an AsynCall has just returned with the error it could not enqueue for
AsynCallFails ==
    CallReturns /\ lastCall'.op = "AsynCall" /\ lastCall'.err # NilErr

\* the descriptors of AsynCalls on the call channel
QueuedAsyn == {i \in 1..Len(ChanCall) : ChanCall[i].chanRet = "asyn"}

\* the server has not received anything and has not been closed
NonDraining == ~chanCallClosed /\ \A k \in Calls : dequeued[k] = 0

\* C18: an AsynCall that cannot enqueue its descriptor invokes the
\* callback once itself, with the error, before it returns, and leaves the
\* counter and the call channel as they were (an AsynCall that enqueues
\* invokes nothing); on the full channel of a server that does not drain
\* the error is "chanrpc channel full" and the counter stays at the
\* capacity of the call channel.
C18_FailedAsynCallCallsBack ==
    /\ [][AsynCallFails =>
            /\ syncCb' = syncCb + 1
            /\ cbCalls' = cbCalls
            /\ pendingAsynCall' = pendingAsynCall
            /\ ChanCall' = ChanCall
            /\ ~Queued(lastCall'.ser)
            /\ cliPc = "idle" /\ cliPc' = "idle"
            /\ (Len(ChanCall) = ChanCallLen /\ ~chanCallClosed
                  /\ ClientF(lastCall'.id, lastCall'.n) = NilErr) =>
                    lastCall'.err = <<"chanrpc channel full", "">>]_vars
    /\ [][(CallReturns /\ lastCall'.op = "AsynCall" /\ lastCall'.err = NilErr) =>
            /\ syncCb' = syncCb
            /\ pendingAsynCall' = pendingAsynCall + 1
            /\ Len(ChanCall) < ChanCallLen
            /\ ChanCall' = Append(ChanCall, ChanCall'[Len(ChanCall')])
            /\ ChanCall'[Len(ChanCall')].ser = lastCall'.ser
            /\ ChanCall'[Len(ChanCall')].chanRet = "asyn"]_vars
    /\ [](NonDraining =>
            /\ pendingAsynCall = Cardinality(QueuedAsyn)
            /\ pendingAsynCall <= ChanCallLen)

\* one more AsynCall than the call channel holds, the server not draining:
\* the last one got "chanrpc channel full" and the counter is the capacity
C18_Witness ==
    /\ NonDraining
    /\ lastCall.op = "AsynCall"
    /\ lastCall.err = <<"chanrpc channel full", "">>
    /\ lastCall.ser = ChanCallLen + 1
    /\ syncCb = 1
    /\ pendingAsynCall = ChanCallLen

\* the number of return descriptors owed to a descriptor
Owed(ci) == IF ci.chanRet = "none" THEN 0 ELSE 1

\* C19: a descriptor on the call channel has not been received before and
\* is received at most once; its function is invoked at most once, and
\* only by the Exec that received it; when Exec returns, or when
\* Server.Close has drained the descriptor, exactly one return descriptor
\* has been sent for it if it names a return channel, and none otherwise.
C19_DescriptorConsumedOnce ==
    /\ [](\A k \in Calls :
            /\ dequeued[k] <= 1
            /\ invoked[k] <= dequeued[k]
            /\ delivered[k] <= dequeued[k]
            /\ Queued(k) => dequeued[k] = 0)
    /\ [][(execPc = "ret" /\ execPc' = "idle") =>
            /\ invoked[execCi.ser] = 1
            /\ delivered'[execCi.ser] = Owed(execCi)]_vars
    /\ [][(execPc = "drain" /\ ChanCall' # ChanCall) =>
            /\ dequeued'[Head(ChanCall).ser] = 1
            /\ invoked'[Head(ChanCall).ser] = 0
            /\ delivered'[Head(ChanCall).ser] = Owed(Head(ChanCall))]_vars

\* one descriptor was executed after a panic and answered, another was
\* drained by Server.Close and answered
C19_Witness ==
    /\ execPc = "closed"
    /\ execPanic # "none"
    /\ \E j, k \in Calls :
         /\ invoked[j] = 1 /\ delivered[j] = 1
         /\ dequeued[k] = 1 /\ invoked[k] = 0 /\ delivered[k] = 1

\* the value sent last on a channel that holds q
Newest(q) == q[Len(q)]

\* C20: when the function panics with r, Exec still hands s.ret a return
\* descriptor, whose error is r as text and whose result is nil, it is
\* sent on the return channel the call descriptor names, Exec returns an
\* error that is not nil, and the server task is back at its loop, where
\* it can receive the next descriptor.
C20_PanicBecomesError ==
    /\ [](execPanic # "none" /\ execPc = "ret" =>
            execRi.err = <<execPanic, "">> /\ execRi.ret = "nil")
    /\ [][(execPc = "ret" /\ execPc' = "idle" /\ execPanic # "none") =>
            /\ execErr' # NilErr /\ execErr'[1] = execPanic
            /\ execCi.chanRet = "sync" =>
                  /\ chanSyncRet' = Append(chanSyncRet, execRi)
                  /\ Newest(chanSyncRet').err = <<execPanic, "">>
            /\ execCi.chanRet = "asyn" =>
                  /\ ChanAsynRet' = Append(ChanAsynRet, execRi)
                  /\ Newest(ChanAsynRet').err = <<execPanic, "">>]_vars
    /\ [](execPc \in {"idle", "ret", "drain", "closed"})

\* a synchronous caller has got the panic as its error and the server
\* task has since received and run a later call without panic
C20_Witness ==
    /\ lastCall.op = "Call"
    /\ lastCall.err[1] \in PanicValues
    /\ execPc = "ret"
    /\ execPanic = "none"
    /\ execCi.ser > lastCall.ser

\* the return descriptor a drained call descriptor ci is answered with
IsClosedAnswer(ri, ci) ==
    /\ ri.ser = ci.ser
    /\ ri.ret = "nil"
    /\ ri.err[1] = "chanrpc server closed"

\* C21: Server.Close first closes the call channel, leaving its content
\* alone; from then on the channel only loses descriptors at its head;
\* each step of the drain takes the head descriptor, invokes no function
\* and, when the descriptor has a return channel, sends that channel one
\* return descriptor with the error chanrpc server closed (none
\* otherwise); when Close has returned the call channel is empty.
C21_CloseDrainsCallChannel ==
    /\ [][(execPc = "idle" /\ execPc' = "drain") =>
            chanCallClosed' /\ ChanCall' = ChanCall]_vars
    /\ [](execPc \in {"drain", "closed"} => chanCallClosed)
    /\ [][chanCallClosed =>
            ChanCall' = ChanCall \/ (ChanCall # <<>> /\ ChanCall' = Tail(ChanCall))]_vars
    /\ [][(execPc = "drain" /\ ChanCall' # ChanCall) =>
            /\ invoked' = invoked
            /\ delivered'[Head(ChanCall).ser] = Owed(Head(ChanCall))
            /\ Head(ChanCall).chanRet = "sync" =>
                  /\ chanSyncRet' = Append(chanSyncRet, Newest(chanSyncRet'))
                  /\ IsClosedAnswer(Newest(chanSyncRet'), Head(ChanCall))
                  /\ ChanAsynRet' = ChanAsynRet
            /\ Head(ChanCall).chanRet = "asyn" =>
                  /\ ChanAsynRet' = Append(ChanAsynRet, Newest(ChanAsynRet'))
                  /\ IsClosedAnswer(Newest(ChanAsynRet'), Head(ChanCall))
                  /\ chanSyncRet' = chanSyncRet
            /\ Head(ChanCall).chanRet = "none" =>
                  chanSyncRet' = chanSyncRet /\ ChanAsynRet' = ChanAsynRet]_vars
    /\ [](execPc = "closed" => ChanCall = <<>>)

\* Close has returned after draining two descriptors with a return
\* channel, answered once each, neither function invoked
C21_Witness ==
    /\ execPc = "closed"
    /\ \E j, k \in Calls :
         /\ j # k
         /\ \A i \in {j, k} : dequeued[i] = 1 /\ invoked[i] = 0 /\ delivered[i] = 1

\* the positions on ChanCall that hold a descriptor of the client
ClientQueued == {i \in 1..Len(ChanCall) : ChanCall[i].chanRet # "none"}

\* C22: the client's descriptors stand on the call channel in the order of
\* their calls, the server receives (and Exec invokes) each of them after
\* every earlier one of the client, the return descriptors stand on
\* ChanAsynRet in the order of their calls and the client receives each
\* after every earlier one. Nothing orders the descriptor of another task
\* (Server.Go's caller) against the client's: see the witness.
C22_ClientOrderPreserved ==
    /\ [](\A i, j \in ClientQueued : i < j => ChanCall[i].ser < ChanCall[j].ser)
    /\ [](\A i \in ClientQueued : ChanCall[i].ser > lastDeq)
    /\ [][lastDeq' # lastDeq =>
            /\ lastDeq' > lastDeq
            /\ lastDeq' = Head(ChanCall).ser
            /\ execPc' = "ret" => execCi'.ser = lastDeq' /\ invoked'[lastDeq'] = 1]_vars
    /\ [](\A i, j \in 1..Len(ChanAsynRet) : i < j => ChanAsynRet[i].ser < ChanAsynRet[j].ser)
    /\ [](\A i \in 1..Len(ChanAsynRet) :
            ChanAsynRet[i].ser > lastRecv /\ ChanAsynRet[i].ser <= lastDeq)
    /\ [][lastRecv' # lastRecv =>
            lastRecv' > lastRecv /\ lastRecv' = Head(ChanAsynRet).ser]_vars

\* two AsynCalls, issued after a Server.Go had built its descriptor, have
\* been executed and answered in their order, and both answers received,
\* while the older descriptor of Server.Go is still on the call channel
C22_Witness ==
    /\ cbCalls = 2
    /\ lastRecv = lastDeq
    /\ Len(ChanCall) = 1
    /\ ChanCall[1].chanRet = "none"
    /\ ChanCall[1].ser < lastDeq - 1

\* the descriptors of Server.Go on the call channel
QueuedGo == {i \in 1..Len(ChanCall) : ChanCall[i].chanRet = "none"}

\* C26: the task in Server.Go is before its send or has returned, it is
\* never left panicked; Go with an id that is not registered returns with
\* the call channel as it was; its send on the closed channel is recovered
\* and leaves the channel as it was; otherwise the send appends one
\* descriptor without return channel, of a registered function; and when
\* Exec has run such a descriptor, whether the function returned or
\* panicked, no return descriptor is sent on either return channel.
C26_GoReportsNothing ==
    /\ [](srvGoPc \in {"idle", "send", "unregistered", "recovered", "sent"})
    /\ [][\A id \in GoIds : ServerGo(id) =>
            /\ ChanCall' = ChanCall
            /\ id \notin DOMAIN functions =>
                  srvGoPc' = "unregistered" /\ srvGoCi' = srvGoCi]_vars
    /\ [](\A i \in QueuedGo : ChanCall[i].id \in DOMAIN functions)
    /\ [][(srvGoPc = "send" /\ srvGoPc' # "send") =>
            IF chanCallClosed
              THEN srvGoPc' = "recovered" /\ ChanCall' = ChanCall
              ELSE /\ srvGoPc' = "sent"
                   /\ ChanCall' = Append(ChanCall, srvGoCi)
                   /\ srvGoCi.chanRet = "none"]_vars
    /\ [][(execPc = "ret" /\ execPc' = "idle" /\ execCi.chanRet = "none") =>
            /\ chanSyncRet' = chanSyncRet
            /\ ChanAsynRet' = ChanAsynRet
            /\ delivered' = delivered]_vars

\* the function of a descriptor of Server.Go has panicked in Exec and
\* Exec has returned without an answer; a later Go found the channel
\* closed and has returned
C26_Witness ==
    /\ srvGoPc = "recovered"
    /\ execPanic # "none"
    /\ lastCall.op = "none"
    /\ \E k \in Calls : dequeued[k] = 1 /\ invoked[k] = 1 /\ delivered[k] = 0
    /\ execPc = "closed"

\* the task in Server.Go cannot go on: its send finds the open call
\* channel full
GoBlocked == srvGoPc = "send" /\ ~chanCallClosed /\ Len(ChanCall) >= ChanCallLen

\* C27: the task that calls Server.Go is never held at Go's send, whatever
\* the call channel holds.
C27_GoNeverBlocks == ~GoBlocked

\* the server task cannot go on inside Exec: s.ret's send finds the return
\* channel of the descriptor full
ExecBlocked ==
    /\ execPc = "ret"
    /\ \/ execCi.chanRet = "sync" /\ Len(chanSyncRet) >= 1
       \/ execCi.chanRet = "asyn" /\ Len(ChanAsynRet) >= AsynRetLen

\* C28: the server task is never held inside Exec at the send of a return
\* descriptor, however many AsynCalls of the client are outstanding.
C28_ExecNeverBlocks == ~ExecBlocked

\* C29: the first calls of the main task are the OnInit of module 1, 2, ...
\* in registration order, one at a time and each once, and no goroutine
\* of run exists, so no Run has started, before the OnInit of the last
\* registered module has returned.
C29_OnInitBeforeAnyRun ==
    /\ \A i \in 1..Len(modLog) : modLog[i][1] = "oninit" <=> i <= NumMods
    /\ \A i \in 1..Len(modLog) : i <= NumMods => modLog[i] = <<"oninit", i>>
    /\ mainPc = "oninit" <=> Len(modLog) < NumMods
    /\ mainPc = "oninit" => mainI = Len(modLog) + 1
    /\ \A m \in Mods : runPc[m] # "none" => Len(modLog) >= NumMods

\* Init is still starting goroutines while the Run of a module has begun
C29_Witness ==
    /\ mainPc = "spawn"
    /\ \E m \in Mods : runPc[m] = "running"
    /\ \E m \in Mods : runPc[m] = "none"
    /\ Len(modLog) = NumMods

\* the position of the event e in modLog, 0 when it has not happened
LogPos(e) ==
    IF \E i \in 1..Len(modLog) : modLog[i] = e
      THEN CHOOSE i \in 1..Len(modLog) : modLog[i] = e
      ELSE 0

\* after the panic of m's OnDestroy, module k has been signalled, waited
\* for and its OnDestroy has ended
DestroyedAfterPanic(m, k) ==
    /\ LogPos(<<"panic", m>>) < LogPos(<<"signal", k>>)
    /\ LogPos(<<"signal", k>>) < LogPos(<<"ondestroy", k>>)
    /\ \/ LogPos(<<"ondestroy", k>>) < LogPos(<<"panic", k>>)
       \/ LogPos(<<"ondestroy", k>>) < LogPos(<<"destroyed", k>>)

\* C30: the step in which a module's OnDestroy panics leaves the main task
\* in Destroy's loop, at the signal of the next module (or at the end
\* after the last one), and from then on Destroy signals, waits for and
\* destroys every module registered earlier and returns.
C30_DestroyContinuesAfterPanic ==
    /\ [][(mainPc = "indestroy" /\ LogPos(<<"panic", DestroyMod>>)' # 0) =>
            IF mainI < NumMods
              THEN mainPc' = "signal" /\ mainI' = mainI + 1
              ELSE mainPc' = "done"]_vars
    /\ \A m \in Mods :
         (LogPos(<<"panic", m>>) # 0) ~>
            (mainPc = "done" /\ \A k \in Mods : k < m => DestroyedAfterPanic(m, k))

\* Destroy has returned after the OnDestroy of the module registered last
\* panicked; the first module was destroyed normally
C30_Witness ==
    /\ mainPc = "done"
    /\ LogPos(<<"panic", NumMods>>) # 0
    /\ LogPos(<<"destroyed", 1>>) # 0
    /\ DestroyedAfterPanic(NumMods, 1)

\* how many times x occurs in the sequence q
Occurrences(q, x) == Cardinality({i \in 1..Len(q) : q[i] = x})

\* how many times the callback x has been sent on ChanCb so far:
\* everything sent is still on the channel or has been handed to Cb
TimesPosted(x) == Occurrences(cbLog, x) + Occurrences(chanCb, x)

\* C23: the callback of a Go(f, cb) has not been sent on ChanCb as long as
\* f has not finished; the task then sends it, whether f returned or
\* panicked, and ends (the panic does not leave it anywhere else); once
\* the task has ended the callback has been sent exactly once.
C23_CallbackPostedOnceAfterF ==
    /\ [](\A p \in Plains :
            /\ plainPc[p] \in {"none", "go", "finished", "exited"}
            /\ TimesPosted(PlainCb(p)) = IF plainPc[p] = "exited" THEN 1 ELSE 0
            /\ p \in fPanicked => plainPc[p] \in {"finished", "exited"})
    /\ [][\A p \in Plains :
            (plainPc[p] = "finished" /\ plainPc'[p] # "finished") =>
               /\ plainPc'[p] = "exited"
               /\ chanCb' = Append(chanCb, PlainCb(p))]_vars
    /\ [][\A p \in Plains :
            plainPc'[p] = "finished" => plainPc[p] \in {"go", "finished"}]_vars

\* f panicked, the task has ended and Cb has been handed the callback
C23_Witness ==
    \E p \in Plains :
        /\ p \in fPanicked
        /\ plainPc[p] = "exited"
        /\ Occurrences(cbLog, PlainCb(p)) = 1

\* the callbacks submitted so far, through the linear context and Go.Go
SubmittedCbs ==
    (1..submitted) \cup {PlainCb(p) : p \in {q \in Plains : plainPc[q] # "none"}}

\* C24: Close, once called, returns; when it has returned pendingGo is 0,
\* ChanCb is empty and each callback submitted through the linear context
\* or Go.Go has been handed to Cb exactly once; each Cb takes one callback
\* off ChanCb and lowers pendingGo by exactly one, whatever the callback
\* is (nil, returning, panicking), and nothing else lowers it.
C24_CloseDrainsEngine ==
    /\ (ownerPc = "closing") ~> (ownerPc = "closed")
    /\ [](ownerPc = "closed" =>
            /\ pendingGo = 0
            /\ chanCb = <<>>
            /\ Len(cbLog) = Cardinality(SubmittedCbs)
            /\ \A x \in SubmittedCbs : Occurrences(cbLog, x) = 1)
    /\ [][cbLog' # cbLog =>
            /\ cbLog' = Append(cbLog, Head(chanCb))
            /\ chanCb' = Tail(chanCb)
            /\ pendingGo' = pendingGo - 1]_vars
    /\ [][pendingGo' < pendingGo => cbLog' # cbLog]_vars

\* Close has returned after callbacks of all three kinds, submitted both
\* ways, went through Cb
C24_Witness ==
    /\ ownerPc = "closed"
    /\ cbSeen = CbKinds
    /\ submitted >= 2
    /\ \E p \in Plains : plainPc[p] = "exited"

(***************************************************************************)
(* Claims about the agent close notification.                              *)
(***************************************************************************)
\* OnClose of agent a has returned
OnCloseReturned(a) == onClosePc[a] \in {"return", "done"}

\* the errors with which Call0 returns although no handler has run
CallFailures == {"function not registered", "return type mismatch",
                 "send on closed channel", "chanrpc server closed"}

\* C25 as stated: with AgentChanRPC configured, an agent's OnClose does not
\* return until the logic task has finished executing the CloseAgent
\* handler for that agent.
C25_OnCloseWaitsForHandler ==
    \A a \in Agents : OnCloseReturned(a) => a \in handled

\* C25, amended: with "CloseAgent" registered without return value and the
\* call channel of AgentChanRPC open, an agent's OnClose does not return
\* until the logic task has finished the CloseAgent handler for that agent
\* and the reply has been received; in every case OnClose returns without
\* the handler having run exactly when Call0 returned one of its own
\* errors, and the shutdown wait of the acceptor returns only after every
\* agent's OnClose has returned, the counter being the number of
\* per-connection tasks that have not finished.
C25_OnCloseWaitsUnlessCallFails ==
    /\ (closeAgentShape = 0 /\ ~agentRpcClosed) =>
           \A a \in Agents : OnCloseReturned(a) =>
               (a \in handled /\ agentRet[a] = <<>> /\ logicCi # a)
    /\ \A a \in Agents : OnCloseReturned(a) =>
           (a \in handled <=> onCloseErr[a][1] \notin CallFailures)
    /\ gateWg = Cardinality({a \in Agents : onClosePc[a] \notin {"none", "done"}})
    /\ gateCloserPc = "returned" => \A a \in Agents : onClosePc[a] \in {"none", "done"}

\* One agent's OnClose has returned after its handler ran, while another
\* agent waits in Call0 for a handler that has not ended and the acceptor's
\* shutdown waits for it.
C25_Witness ==
    /\ closeAgentShape = 0
    /\ ~agentRpcClosed
    /\ gateCloserPc = "wait"
    /\ \E a, b \in Agents :
         /\ onClosePc[a] = "done"
         /\ a \in handled
         /\ onClosePc[b] = "wait"
         /\ b \notin handled
         /\ logicCi = b

(***************************************************************************)
(* Claims about the connection's send queue under concurrent callers.      *)
(***************************************************************************)
\* a caller is at the channel send of doWrite
AtSend(t) == callPc[t] \in {"WriteSend", "CloseSend"}

\* C36: in every interleaving of Write, Close and Destroy calls with the
\* writer task the send queue is closed at most once, it stays closed, and
\* after it has been closed nothing is sent on it and no caller is about to
\* send: neither a send on the closed channel nor a second close happens.
C36_QueueClosedOnceNoSendAfter ==
    /\ [](~chanPanic)
    /\ [](chanClosed => destroyCount = 1)
    /\ [](destroyCount <= 1)
    /\ [](chanClosed => \A t \in Callers : ~AtSend(t))
    /\ [][chanClosed => (chanClosed' /\ enqLog' = enqLog)]_vars

\* C36 witness: the queue was closed while it held a buffer, the writer task
\* is still receiving, and afterwards another caller's Destroy came back
\* from the closed connection
C36_Witness ==
    /\ chanClosed
    /\ writeChan # <<>>
    /\ writerPc = "recv"
    /\ lastRet = <<"Destroy", "closed">>
    /\ \E t \in Callers : callPc[t] = "Write"

\* the writer task waits for the connection lock in its cleanup
WriterWantsLock == writerPc = "setflag"

\* C37: a caller that has come to the send of doWrite inside Write or Close
\* finds the queue open and with room, so the send does not wait; a task
\* that holds the connection lock can always take its next step, also
\* while the writer task waits for the lock in its cleanup, and the writer
\* holds no lock while it receives or writes.
C37_EnqueueUnderLockNeverBlocks ==
    /\ \A t \in Callers :
         AtSend(t) => (mutex = t /\ ~chanClosed /\ Len(writeChan) < PendingWriteNum)
    /\ \A t \in Callers : mutex = t => ENABLED CallerStep(t)
    /\ mutex \in Callers \cup {0}
    /\ (WriterWantsLock /\ mutex = 0) => ENABLED WriterSetFlag

\* C37 witness: a caller holds the lock and is about to send into the last
\* free slot of the queue while the writer task, after a failed socket
\* write, waits for the lock in its cleanup
C37_Witness ==
    /\ WriterWantsLock
    /\ \E t \in Callers :
         /\ mutex = t
         /\ AtSend(t)
         /\ Len(writeChan) = PendingWriteNum - 1

\* C38: a Close that finds the connection open and the send queue full
\* enqueues no sentinel; it performs doDestroy (socket closed, queue closed,
\* closeFlag set) and returns, the buffers staying in the queue; no
\* sentinel is ever enqueued afterwards.  That the queued buffers need not
\* reach the socket is the witness.
C38_CloseOnFullQueueDestroys ==
    /\ [][\A t \in Callers :
            (/\ Decides(t, "Close")
             /\ ~closeFlag
             /\ Len(writeChan) = PendingWriteNum)
              => (/\ callPc'[t] = "idle"
                  /\ mutex' = 0
                  /\ lastRet' = <<"Close", "full">>
                  /\ sockClosed' /\ chanClosed' /\ closeFlag'
                  /\ destroyCount' = destroyCount + 1
                  /\ fullCount' = fullCount + 1
                  /\ writeChan' = writeChan
                  /\ enqLog' = enqLog)]_vars
    /\ [][lastRet' = <<"Close", "full">> => Sentinels' = 0]_vars
    /\ [](lastRet = <<"Close", "full">> => (chanClosed /\ sockClosed /\ closeFlag))

\* C38 witness: Close found the queue full and destroyed the connection;
\* the writer task has ended without any failed write on the open socket,
\* and none of the buffers that filled the queue has reached the socket
C38_Witness ==
    /\ lastRet = <<"Close", "full">>
    /\ writerPc = "exit"
    /\ ~writeErr
    /\ Len(enqLog) = PendingWriteNum
    /\ sockLog = <<>>

(***************************************************************************)
(* Claims about synchronous calls that race with Server.Close.             *)
(***************************************************************************)
\* the synchronous call in progress is about to receive the answer that
\* Server.Close gave to its queued descriptor
ClosedAnswerWaiting ==
    /\ cliPc = "wait"
    /\ chanSyncRet # <<>>
    /\ Head(chanSyncRet).err = <<"chanrpc server closed", "">>

\* C40: a synchronous call whose descriptor was queued when Server.Close
\* ran returns the error chanrpc server closed, whichever of Call0, Call1
\* and CallN it is: receiving the answer of Close never crashes the caller.
C40_SyncCallSurvivesClose ==
    [][ClosedAnswerWaiting =>
         (cliPc' = "wait" \/
            (/\ cliPc' = "idle"
             /\ lastCall'.op = "Call"
             /\ lastCall'.err = <<"chanrpc server closed", "">>))]_vars

(***************************************************************************)
(* Claims about the order of NewAgent and CloseAgent.                      *)
(***************************************************************************)
\* the position of the first x in the sequence q, 0 when q has no x
PosIn(q, x) ==
    IF \E i \in 1..Len(q) : q[i] = x
      THEN CHOOSE i \in 1..Len(q) : q[i] = x /\ \A j \in 1..(i - 1) : q[j] # x
      ELSE 0

\* in the sequence q of descriptors, CloseAgent for a comes only after
\* NewAgent for a, and each of the two at most once
NewBeforeClose(q, a) ==
    /\ Occurrences(q, AgentCallInfo("NewAgent", a)) <= 1
    /\ Occurrences(q, AgentCallInfo("CloseAgent", a)) <= 1
    /\ PosIn(q, AgentCallInfo("CloseAgent", a)) > 0 =>
         /\ PosIn(q, AgentCallInfo("NewAgent", a)) > 0
         /\ PosIn(q, AgentCallInfo("NewAgent", a)) < PosIn(q, AgentCallInfo("CloseAgent", a))

\* C39: with "NewAgent" and "CloseAgent" registered on AgentChanRPC, for
\* every agent the gate creates the NewAgent descriptor is sent on the call
\* channel before the CloseAgent descriptor of the same agent, and the
\* logic task starts NewAgent(a) before CloseAgent(a).
C39_NewAgentBeforeCloseAgent ==
    (newAgentReg /\ closeAgentShape # -1) =>
        \A a \in Agents :
            /\ NewBeforeClose(agentSent, a)
            /\ NewBeforeClose(agentExec, a)
            /\ IsPrefix(agentExec, agentSent)

\* C39 witness: the logic task has run both handlers for two agents, the
\* agent created second closing first
C39_Witness ==
    /\ newAgentReg
    /\ closeAgentShape = 0
    /\ Len(agentExec) = 4
    /\ agentExec[2] = AgentCallInfo("NewAgent", 2)
    /\ agentExec[3] = AgentCallInfo("CloseAgent", 2)
    /\ agentExec[4] = AgentCallInfo("CloseAgent", 1)

(***************************************************************************)
(* Claims about message routing.                                           *)
(***************************************************************************)
\* the position of the first event ev of Route call k in the log, 0 if none
EventPos(k, ev) ==
    IF \E i \in 1..Len(routeLog) : routeLog[i][1] = k /\ routeLog[i][2] = ev
      THEN CHOOSE i \in 1..Len(routeLog) :
             /\ routeLog[i][1] = k /\ routeLog[i][2] = ev
             /\ \A j \in 1..(i - 1) : ~(routeLog[j][1] = k /\ routeLog[j][2] = ev)
      ELSE 0

\* the number of events ev of Route call k in the log
EventCount(k, ev) ==
    Cardinality({i \in 1..Len(routeLog) : routeLog[i][1] = k /\ routeLog[i][2] = ev})

\* the message of Route call k
RoutedMsg(k) == routeLog[EventPos(k, "Route")][3]

\* Route call k has returned nil
RouteReturnedNil(k) ==
    \/ k < routeK /\ EventPos(k, "panic") = 0
    \/ k = routeK /\ routePc = "idle"

\* C33: Route on a registered message with a handler and a router invokes
\* the handler once with [msg, userData], and calls the router's Go with
\* the message type only after the handler has returned; when Route has
\* returned nil both have happened, in this order.  Route on a message
\* that is not registered returns an error and invokes neither.
C33_HandlerThenRouter ==
    \A k \in 1..routeK :
        LET m == RoutedMsg(k) IN
          /\ m \notin DOMAIN msgInfo =>
               /\ EventPos(k, "handler") = 0
               /\ EventPos(k, "Go") = 0
               /\ k = routeK
               /\ routePc = "ended"
               /\ routeRet \in {<<"message not registered", m>>,
                                <<"json message pointer required", "">>}
          /\ (m \in DOMAIN msgInfo /\ msgInfo[m].msgHandler /\ msgInfo[m].msgRouter) =>
               /\ EventCount(k, "handler") <= 1
               /\ EventCount(k, "Go") <= 1
               /\ EventPos(k, "handler") > 0 =>
                    routeLog[EventPos(k, "handler")][3] = <<m, UserData>>
               /\ EventPos(k, "returned") > 0 =>
                    (EventPos(k, "handler") > 0
                       /\ EventPos(k, "handler") < EventPos(k, "returned"))
               /\ EventPos(k, "Go") > 0 =>
                    (/\ EventPos(k, "returned") > 0
                     /\ EventPos(k, "returned") < EventPos(k, "Go")
                     /\ routeLog[EventPos(k, "Go")][3] = m)
               /\ RouteReturnedNil(k) => EventPos(k, "Go") > 0

\* C33 witness: the first Route, of a message with handler and router, ran
\* the handler and then posted to the router, whose channel still holds
\* the descriptor; the second Route, of a message that is not registered,
\* has returned its error
C33_Witness ==
    /\ routeK = 2
    /\ RoutedMsg(1) = "Hello"
    /\ EventPos(1, "Go") = 4
    /\ routerCall = <<<<"Hello", <<"Hello", UserData>>>>>>
    /\ RoutedMsg(2) = "Bogus"
    /\ routePc = "ended"
    /\ routeRet = <<"message not registered", "Bogus">>

(***************************************************************************)
(* Claims about timers and cron jobs.                                      *)
(***************************************************************************)
\* timer t stands on the dispatcher's channel
OnChanTimer(t) == \E i \in 1..Len(ChanTimer) : ChanTimer[i] = t

\* C34: once Timer.Stop has been called on a timer its callback is not
\* invoked any more, whether the timer had expired and stood on ChanTimer
\* or not when Stop was called; and the callback of a timer is invoked at
\* most once, however often Cb is called on it.
C34_StoppedTimerNeverCalled ==
    /\ [][\A t \in Timers : tmStopped[t] => tmInvoked'[t] = tmInvoked[t]]_vars
    /\ [](\A t \in Timers : tmInvoked[t] <= 1)
    /\ [](\A t \in Timers : (tmStopped[t] /\ timerPc = "idle") => tmCb[t] = "nil")

\* C34 witness: one timer had expired and been sent on ChanTimer when Stop
\* was called, Cb was then called on it and invoked nothing; on the other
\* timer Cb was called twice and invoked the callback once
C34_Witness ==
    \E t, u \in Timers :
        /\ t \notin cronTimers
        /\ stopFound[t] = "done"
        /\ ~OnChanTimer(t)
        /\ tmCbCalls[t] = 1
        /\ tmInvoked[t] = 0
        /\ u \notin cronTimers
        /\ ~tmStopped[u]
        /\ tmCbCalls[u] = 2
        /\ tmInvoked[u] = 1

\* C35: once Cron.Stop has been called on the owning task, inside the
\* cron's user callback or between callbacks, the user callback is not
\* invoked again; inside the user callback the cron already holds the
\* timer registered for the next time, and that is the timer Stop cancels,
\* so that no timer of the cron keeps a callback.
C35_CronStopEndsCron ==
    /\ [][cronStopped # "no" => cronRuns' = cronRuns]_vars
    /\ [](timerPc = "cronUser" => (cronT # 0 /\ cronT >= timerCur))
    /\ []((cronStopped # "no" /\ timerPc = "idle") =>
            \A t \in cronTimers : tmCb[t] = "nil")

\* C35 witness: the user callback ran once and called Stop; the timer for
\* the next time had been registered and had already expired onto
\* ChanTimer when Stop was called, and Cb on it has invoked nothing
C35_Witness ==
    /\ cronStopped = "inside"
    /\ cronRuns = 1
    /\ cronT \in cronTimers
    /\ Cardinality(cronTimers) = 2
    /\ stopFound[cronT] = "done"
    /\ tmCbCalls[cronT] = 1
    /\ tmInvoked[cronT] = 0

(***************************************************************************)
(* Message framing (network MsgParser): | len | data |.                    *)
(* A byte is a number in 0..255; a message is a sequence of bytes.         *)
(***************************************************************************)
ParserFrame ==
    UNCHANGED <<modVars, goVars, connVars, srvVars, rpcVars, gateVars, routeVars,
                timerVars>>

\* math.MaxUint8 and math.MaxUint16, the largest length a prefix of one and
\* of two bytes holds
MaxUint8 == 255
MaxUint16 == 65535

\* the values the configuration gives to SetMsgLen (0: leave the default;
\* 3 is not a width)
LenArgs == {1, 2, 3, 4}
MinArgs == {0, 70000}
MaxArgs == {0, 1}

\* the chunks handed to Write: none, one or 255 bytes (n bytes of value v)
Fill(n, v) == [i \in 1..n |-> v]
Chunks == {<<>>, Fill(1, 1), Fill(255, 2)}
ArgLists == UNION {[1..k -> Chunks] : k \in 0..MaxChunks}

\* the length prefixes a peer that does not use Write may send: at most one
\* byte of the prefix is not zero
RawHeaders(w) ==
    {[i \in 1..w |-> IF i = k THEN b ELSE 0] : k \in 1..w, b \in {0, 1, 255}}

\* SetMsgLen's last step: a bound above the largest length the prefix holds
\* is lowered to it (for 4 bytes that is math.MaxUint32, which no uint32
\* exceeds)
ClampLen(w, v) ==
    IF w = 1 /\ v > MaxUint8 THEN MaxUint8
    ELSE IF w = 2 /\ v > MaxUint16 THEN MaxUint16
    ELSE v

\* msgParser.SetMsgLen(server.LenMsgLen, server.MinMsgLen, server.MaxMsgLen)
ParserSetMsgLen(l, mn, mx) ==
    /\ parserPc = "new"
    /\ LET w == IF l \in {1, 2, 4} THEN l ELSE lenMsgLen
           lo == IF mn # 0 THEN mn ELSE minMsgLen
           hi == IF mx # 0 THEN mx ELSE maxMsgLen
       IN /\ lenMsgLen' = w
          /\ minMsgLen' = ClampLen(w, lo)
          /\ maxMsgLen' = ClampLen(w, hi)
    /\ parserPc' = "lenSet"
    /\ UNCHANGED <<littleEndian, wire, wireClosed, frames, nFrames, readPc,
                   lastWrite, lastRead>>
    /\ ParserFrame

\* msgParser.SetByteOrder(server.LittleEndian)
ParserSetByteOrder(le) ==
    /\ parserPc = "lenSet"
    /\ littleEndian' = le
    /\ parserPc' = "ready"
    /\ UNCHANGED <<lenMsgLen, minMsgLen, maxMsgLen, wire, wireClosed, frames,
                   nFrames, readPc, lastWrite, lastRead>>
    /\ ParserFrame

\* the sequence s read backwards
Reverse(s) == [i \in 1..Len(s) |-> s[Len(s) + 1 - i]]

\* byte(msgLen), uint16(msgLen) and msgLen itself: the length cut to the
\* width of the prefix
Truncate(w, v) == IF w = 1 THEN v % 256 ELSE IF w = 2 THEN v % 65536 ELSE v

\* a prefix written most significant byte first whatever the byte order
PutUintBigOnly(w, le, v) ==
    [i \in 1..w |-> (v \div (256 ^ (w - i))) % 256]

\* binary.BigEndian.PutUint16/32 and binary.LittleEndian.PutUint16/32 (for
\* one byte: msg[0] = byte(msgLen)): the w bytes of v, the most significant
\* first or last
PutUint(w, le, v) ==
    LET big == [i \in 1..w |-> (v \div (256 ^ (w - i))) % 256]
    IN IF le THEN Reverse(big) ELSE big

\* binary.BigEndian.Uint16/32 and binary.LittleEndian.Uint16/32 (for one
\* byte: uint32(bufMsgLen[0])), as the pair <<upper 16 bits, lower 16 bits>>
\* of the uint32 result
Uint(w, le, b) ==
    LET big == IF le THEN Reverse(b) ELSE b
    IN IF w = 1 THEN <<0, big[1]>>
       ELSE IF w = 2 THEN <<0, big[1] * 256 + big[2]>>
       ELSE <<big[1] * 256 + big[2], big[3] * 256 + big[4]>>

\* comparison of the uint32 <<upper, lower>> with the bound v
U32Gt(u, v) ==
    \/ u[1] > v \div 65536
    \/ u[1] = v \div 65536 /\ u[2] > v % 65536
U32Lt(u, v) ==
    \/ u[1] < v \div 65536
    \/ u[1] = v \div 65536 /\ u[2] < v % 65536

\* a check of the length that tests the upper bound only
WriteLenErrNoMin(msgLen) ==
    IF msgLen > maxMsgLen THEN "message too long"
    ELSE "nil"

\* Write's check of the length (msgLen is the sum of the chunks' lengths)
WriteLenErr(msgLen) ==
    IF msgLen > maxMsgLen THEN "message too long"
    ELSE IF msgLen < minMsgLen THEN "message too short"
    ELSE "nil"

\* Read's check of the decoded length
ReadLenErr(u) ==
    IF U32Gt(u, maxMsgLen) THEN "message too long"
    ELSE IF U32Lt(u, minMsgLen) THEN "message too short"
    ELSE "nil"

\* msgLen += uint32(len(args[i])) for the chunks i..len(args) (the sums of
\* the model's chunks stay far below 2^32)
RECURSIVE SumLen(_, _, _)
SumLen(args, i, msgLen) ==
    IF i > Len(args) THEN msgLen
    ELSE SumLen(args, i + 1, msgLen + Len(args[i]))

\* copy(msg[l:], args[i]); l += len(args[i]) for the chunks i..len(args)
RECURSIVE CopyChunks(_, _, _, _)
CopyChunks(msg, l, args, i) ==
    IF i > Len(args) THEN msg
    ELSE CopyChunks(
             [j \in 1..Len(msg) |->
                 IF j > l /\ j <= l + Len(args[i]) THEN args[i][j - l] ELSE msg[j]],
             l + Len(args[i]), args, i + 1)

\* the message Write builds: make([]byte, lenMsgLen+msgLen), the prefix
\* written at its start, the chunks copied behind it
BuildMsg(args, msgLen) ==
    LET prefix == PutUint(lenMsgLen, littleEndian, Truncate(lenMsgLen, msgLen))
        msg == [j \in 1..(lenMsgLen + msgLen) |->
                   IF j <= lenMsgLen THEN prefix[j] ELSE 0]
    IN CopyChunks(msg, lenMsgLen, args, 1)

\* MsgParser.Write(conn, args...): an illegal length is answered with the
\* error and nothing is written; otherwise the message goes to conn.Write
ParserWrite(args) ==
    /\ parserPc = "ready"
    /\ ~wireClosed
    /\ nFrames < MaxFrames
    /\ LET msgLen == SumLen(args, 1, 0)
           err == WriteLenErr(msgLen)
       IN IF err # "nil"
          THEN /\ lastWrite' = [args |-> args, err |-> err, enq |-> <<>>]
               /\ UNCHANGED <<wire, frames, nFrames>>
          ELSE LET msg == BuildMsg(args, msgLen)
               IN /\ lastWrite' = [args |-> args, err |-> "nil", enq |-> msg]
                  /\ wire' = wire \o msg
                  /\ frames' = Append(frames, [by |-> "Write", args |-> args])
                  /\ nFrames' = nFrames + 1
    /\ UNCHANGED <<lenMsgLen, minMsgLen, maxMsgLen, littleEndian, parserPc,
                   wireClosed, readPc, lastRead>>
    /\ ParserFrame

\* a peer that frames its messages itself sends a length prefix and nothing
\* after it
PeerSendRaw(h) ==
    /\ parserPc = "ready"
    /\ ~wireClosed
    /\ nFrames < MaxFrames
    /\ wire' = wire \o h
    /\ frames' = Append(frames, [by |-> "peer", args |-> <<>>])
    /\ nFrames' = MaxFrames
    /\ UNCHANGED <<lenMsgLen, minMsgLen, maxMsgLen, littleEndian, parserPc,
                   wireClosed, readPc, lastWrite, lastRead>>
    /\ ParserFrame

\* the writing side closes the connection: what is on the wire can still be
\* read, then the read ends with EOF
PeerClose ==
    /\ parserPc = "ready"
    /\ ~wireClosed
    /\ wireClosed' = TRUE
    /\ UNCHANGED <<lenMsgLen, minMsgLen, maxMsgLen, littleEndian, parserPc,
                   wire, frames, nFrames, readPc, lastWrite, lastRead>>
    /\ ParserFrame

\* the first n bytes of s and what follows them
Take(s, n) == SubSeq(s, 1, n)
Drop(s, n) == SubSeq(s, n + 1, Len(s))

\* io.ReadFull on a closed connection that holds k bytes, fewer than asked
ShortReadErr(k) == IF k = 0 THEN "EOF" ELSE "unexpected EOF"

\* MsgParser.Read(conn) in the agent's loop (data, err := a.conn.ReadMsg();
\* an error ends the loop).  io.ReadFull waits until the bytes it asks for
\* have arrived or the connection is closed.
ParserRead ==
    /\ parserPc = "ready"
    /\ readPc = "reading"
    /\ LET from == IF frames = <<>> THEN NoFrame ELSE Head(frames)
       IN IF Len(wire) < lenMsgLen
          THEN \* io.ReadFull(conn, bufMsgLen) fails
               /\ wireClosed
               /\ lastRead' = [stage |-> "prefix", err |-> ShortReadErr(Len(wire)),
                               len |-> <<0, 0>>, data |-> <<>>,
                               consumed |-> Len(wire), from |-> from]
               /\ wire' = <<>>
               /\ frames' = <<>>
               /\ readPc' = "ended"
          ELSE LET msgLen == Uint(lenMsgLen, littleEndian, Take(wire, lenMsgLen))
                   rest == Drop(wire, lenMsgLen)
                   err == ReadLenErr(msgLen)
                   n == msgLen[1] * 65536 + msgLen[2]
               IN IF err # "nil"
                  THEN /\ lastRead' = [stage |-> "length", err |-> err,
                                       len |-> msgLen, data |-> <<>>,
                                       consumed |-> lenMsgLen, from |-> from]
                       /\ wire' = rest
                       /\ frames' = Tail(frames)
                       /\ readPc' = "ended"
                  ELSE IF Len(rest) < n
                  THEN \* io.ReadFull(conn, msgData) fails
                       /\ wireClosed
                       /\ lastRead' = [stage |-> "payload", err |-> ShortReadErr(Len(rest)),
                                       len |-> msgLen, data |-> <<>>,
                                       consumed |-> Len(wire), from |-> from]
                       /\ wire' = <<>>
                       /\ frames' = <<>>
                       /\ readPc' = "ended"
                  ELSE /\ lastRead' = [stage |-> "done", err |-> "nil",
                                       len |-> msgLen, data |-> Take(rest, n),
                                       consumed |-> lenMsgLen + n, from |-> from]
                       /\ wire' = Drop(rest, n)
                       /\ frames' = Tail(frames)
                       /\ readPc' = "reading"
    /\ UNCHANGED <<lenMsgLen, minMsgLen, maxMsgLen, littleEndian, parserPc,
                   wireClosed, nFrames, lastWrite>>
    /\ ParserFrame

NextParser ==
    \/ \E l \in LenArgs, mn \in MinArgs, mx \in MaxArgs : ParserSetMsgLen(l, mn, mx)
    \/ \E le \in BOOLEAN : ParserSetByteOrder(le)
    \/ \E args \in ArgLists : ParserWrite(args)
    \/ \E h \in RawHeaders(lenMsgLen) : PeerSendRaw(h)
    \/ PeerClose
    \/ ParserRead

SpecParser == Init /\ [][NextParser]_vars

\* the chunks of args one after the other
RECURSIVE Concat(_)
Concat(args) == IF args = <<>> THEN <<>> ELSE Head(args) \o Concat(Tail(args))

\* the number of bytes the frames fs occupy on the wire: the prefix and, for
\* a frame made by Write, its payload
RECURSIVE WireLen(_)
WireLen(fs) ==
    IF fs = <<>> THEN 0
    ELSE lenMsgLen + Len(Concat(Head(fs).args)) + WireLen(Tail(fs))

\* C31: framing round trip.  For every prefix width, both byte orders and
\* every list of chunks whose total length L lies within
\* minMsgLen..maxMsgLen, Write produces lenMsgLen + L bytes, and Read with
\* the same configuration, fed those bytes, returns exactly the
\* concatenation of the chunks and takes exactly lenMsgLen + L bytes from the
\* connection: what stays on the wire is exactly the frames behind it.
C31_FramingRoundTrip ==
    /\ LET L == Len(Concat(lastWrite.args))
       IN (lastWrite.err # "none" /\ minMsgLen <= L /\ L <= maxMsgLen) =>
              /\ lastWrite.err = "nil"
              /\ Len(lastWrite.enq) = lenMsgLen + L
    /\ lastRead.from.by = "Write" =>
           /\ lastRead.err = "nil"
           /\ lastRead.data = Concat(lastRead.from.args)
           /\ lastRead.consumed = lenMsgLen + Len(lastRead.data)
    /\ Len(wire) = WireLen(frames)

\* a payload of 256 bytes given as two chunks came back from a frame with a
\* little-endian prefix of two bytes, with another frame behind it
C31_Witness ==
    /\ lenMsgLen = 2
    /\ littleEndian
    /\ lastRead.from.by = "Write"
    /\ Len(lastRead.from.args) = 2
    /\ \A i \in 1..2 : lastRead.from.args[i] # <<>>
    /\ lastRead.err = "nil"
    /\ Len(lastRead.data) = 256
    /\ frames # <<>>

\* the last Write was called; the last Read got as far as decoding a length
WriteCalled == lastWrite.err # "none"
ReadDecoded == lastRead.stage \in {"length", "payload", "done"}

\* the total length of the chunks of the last Write
WriteL == Len(Concat(lastWrite.args))

\* C32 as stated: Write and Read accept a length L iff
\* minMsgLen <= L <= maxMsgLen; L > maxMsgLen gives "message too long" and
\* L < minMsgLen gives "message too short"; on either error Write hands
\* nothing to the connection and Read takes only the prefix from it.
C32_SameBoundAsStated ==
    /\ WriteCalled =>
           /\ (lastWrite.err = "nil") <=> (minMsgLen <= WriteL /\ WriteL <= maxMsgLen)
           /\ WriteL > maxMsgLen => lastWrite.err = "message too long"
           /\ WriteL < minMsgLen => lastWrite.err = "message too short"
           /\ lastWrite.err # "nil" => lastWrite.enq = <<>>
    /\ ReadDecoded =>
           /\ (lastRead.stage # "length")
                  <=> (~U32Lt(lastRead.len, minMsgLen) /\ ~U32Gt(lastRead.len, maxMsgLen))
           /\ U32Gt(lastRead.len, maxMsgLen) => lastRead.err = "message too long"
           /\ U32Lt(lastRead.len, minMsgLen) => lastRead.err = "message too short"
           /\ lastRead.stage = "length" => lastRead.consumed = lenMsgLen

\* C32, amended: the upper bound is tested first.  Write and Read accept a
\* length L iff minMsgLen <= L <= maxMsgLen; L > maxMsgLen gives "message too
\* long", and L < minMsgLen gives "message too short" unless L > maxMsgLen as
\* well (a configuration with minMsgLen > maxMsgLen); on either error Write
\* hands nothing to the connection and Read takes only the prefix from it.
C32_SameBoundLongFirst ==
    /\ WriteCalled =>
           /\ (lastWrite.err = "nil") <=> (minMsgLen <= WriteL /\ WriteL <= maxMsgLen)
           /\ WriteL > maxMsgLen => lastWrite.err = "message too long"
           /\ (WriteL < minMsgLen /\ WriteL <= maxMsgLen)
                  => lastWrite.err = "message too short"
           /\ lastWrite.err # "nil" => lastWrite.enq = <<>>
    /\ ReadDecoded =>
           /\ (lastRead.stage # "length")
                  <=> (~U32Lt(lastRead.len, minMsgLen) /\ ~U32Gt(lastRead.len, maxMsgLen))
           /\ U32Gt(lastRead.len, maxMsgLen) => lastRead.err = "message too long"
           /\ (U32Lt(lastRead.len, minMsgLen) /\ ~U32Gt(lastRead.len, maxMsgLen))
                  => lastRead.err = "message too short"
           /\ lastRead.stage = "length" => lastRead.consumed = lenMsgLen

\* Write refused a payload as too short and Read refused a prefix as too
\* long, taking only the prefix, with minMsgLen <= maxMsgLen
C32_Witness ==
    /\ minMsgLen <= maxMsgLen
    /\ lastWrite.err = "message too short"
    /\ lastWrite.enq = <<>>
    /\ lastRead.err = "message too long"
    /\ lastRead.consumed = lenMsgLen

====
